---- MODULE Spec2Model ----
(***************************************************************************)
(* Model of the download strategy (src/src/downloader.py) and of the       *)
(* FlareSolverr request resolver it talks to                               *)
(* (src/3rdparty/FlareSolverr/src/flaresolverr_service.py).                *)
(*                                                                         *)
(* Text is a sequence of one-character strings, bytes are a sequence of    *)
(* integers 0..255.  A text field that is None or "" is the empty          *)
(* sequence: the downloader reads every such field through `or` / `not`,   *)
(* which do not tell the two apart.                                        *)
(***************************************************************************)
EXTENDS Integers, Sequences, FiniteSets, TLC

----------------------------------------------------------------------------
(* Text and byte helpers, computed the way the Python built-ins compute.   *)

UpperChars == <<"A","B","C","D","E","F","G","H","I","J","K","L","M",
                "N","O","P","Q","R","S","T","U","V","W","X","Y","Z">>
LowerChars == <<"a","b","c","d","e","f","g","h","i","j","k","l","m",
                "n","o","p","q","r","s","t","u","v","w","x","y","z">>
DigitChars == <<"0","1","2","3","4","5","6","7","8","9">>

\* Position of c in the sequence s, 0 when absent.
IndexOf(c, s) ==
    IF \E i \in 1..Len(s) : s[i] = c
    THEN CHOOSE i \in 1..Len(s) : s[i] = c /\ \A j \in 1..(i-1) : s[j] # c
    ELSE 0

\* The characters of a sequence, as a set.
CharsOf(s) == {s[i] : i \in 1..Len(s)}

\* str.lower() on one character and on a text.
UpperSet == CharsOf(UpperChars)
LowerOf == [c \in UpperSet |-> LowerChars[IndexOf(c, UpperChars)]]
LowerChar(c) == IF c \in UpperSet THEN LowerOf[c] ELSE c
Lower(s) == [i \in 1..Len(s) |-> LowerChar(s[i])]

\* s.startswith(p), at offset i: s[i..] starts with p.
StartsWithAt(s, p, i) ==
    /\ i >= 1
    /\ i + Len(p) - 1 <= Len(s)
    /\ \A k \in 1..Len(p) : s[i + k - 1] = p[k]
StartsWith(s, p) == StartsWithAt(s, p, 1)

\* "sub in s"
Contains(s, sub) == \E i \in 1..(Len(s) + 1) : StartsWithAt(s, sub, i)

\* The base64 alphabet: value of a character is its position minus one.
B64Alphabet == UpperChars \o LowerChars \o DigitChars \o <<"+", "/">>

\* ord() of the ASCII characters the model uses; 0 for a character that is
\* not ASCII (the model's only such character is "é").
OrdOf(c) ==
    CASE IndexOf(c, UpperChars) > 0 -> 64 + IndexOf(c, UpperChars)
      [] IndexOf(c, LowerChars) > 0 -> 96 + IndexOf(c, LowerChars)
      [] IndexOf(c, DigitChars) > 0 -> 47 + IndexOf(c, DigitChars)
      [] c = " "  -> 32
      [] c = "\t" -> 9
      [] c = "\n" -> 10
      [] c = "\"" -> 34
      [] c = "%"  -> 37
      [] c = "'"  -> 39
      [] c = "+"  -> 43
      [] c = "-"  -> 45
      [] c = "."  -> 46
      [] c = "/"  -> 47
      [] c = ":"  -> 58
      [] c = "<"  -> 60
      [] c = "="  -> 61
      [] c = ">"  -> 62
      [] c = "?"  -> 63
      [] c = "\\" -> 92
      [] c = "{"  -> 123
      [] c = "}"  -> 125
      [] OTHER    -> 0
AsciiChars ==
    CharsOf(UpperChars) \cup CharsOf(LowerChars) \cup CharsOf(DigitChars)
    \cup {" ", "\t", "\n", "\"", "%", "'", "+", "-", ".", "/", ":", "<", "=", ">",
          "?", "\\", "{", "}"}
OrdTable == [c \in AsciiChars |-> OrdOf(c)]
Ord(c) == IF c \in AsciiChars THEN OrdTable[c] ELSE 0

IsAscii(s) == \A i \in 1..Len(s) : Ord(s[i]) > 0

RECURSIVE Utf8Encode(_)
\* str.encode("utf-8"): one byte per ASCII character, two bytes for "é".
Utf8Encode(s) ==
    IF s = <<>> THEN <<>>
    ELSE (IF Ord(Head(s)) > 0 THEN <<Ord(Head(s))>> ELSE <<195, 169>>)
         \o Utf8Encode(Tail(s))

\* bytes.lstrip(): leading ASCII whitespace (space, \t, \n, \v, \f, \r) removed.
WhitespaceBytes == {32, 9, 10, 11, 12, 13}
RECURSIVE LStrip(_)
LStrip(b) ==
    IF b # <<>> /\ Head(b) \in WhitespaceBytes THEN LStrip(Tail(b)) ELSE b

PdfMagic == <<37, 80, 68, 70, 45>>   \* b"%PDF-"

\* payload.lstrip().startswith(b"%PDF-")
SniffsPdf_NoStrip(b) == StartsWith(b, PdfMagic)
SniffsPdf(b) == StartsWith(LStrip(b), PdfMagic)

B64Chars == CharsOf(B64Alphabet)
B64Value == [c \in B64Chars |-> IndexOf(c, B64Alphabet) - 1]

RECURSIVE SelectAlphabet(_)
SelectAlphabet(s) ==
    IF s = <<>> THEN <<>>
    ELSE (IF Head(s) \in B64Chars THEN <<Head(s)>> ELSE <<>>)
         \o SelectAlphabet(Tail(s))

CountPad(s) == Cardinality({i \in 1..Len(s) : s[i] = "="})

Sextet(c) == IF c \in B64Chars THEN B64Value[c] ELSE -1

RECURSIVE DecodeQuads(_)
\* The bytes of a run of base64 data characters: 4 characters give 3 bytes,
\* a trailing 3 give 2 and a trailing 2 give 1.
DecodeQuads(d) ==
    IF Len(d) < 2 THEN <<>>
    ELSE LET v1 == Sextet(d[1])
             v2 == Sextet(d[2])
             b1 == v1 * 4 + (v2 \div 16)
         IN  IF Len(d) = 2 THEN <<b1>>
             ELSE LET v3 == Sextet(d[3])
                      b2 == (v2 % 16) * 16 + (v3 \div 4)
                  IN  IF Len(d) = 3 THEN <<b1, b2>>
                      ELSE <<b1, b2, (v3 % 4) * 64 + Sextet(d[4])>>
                           \o DecodeQuads(SubSeq(d, 5, Len(d)))

\* base64.b64decode(s) in its default, non-validating mode: characters outside
\* the alphabet are discarded, and the data must be padded to a multiple of
\* four; a text that is not ASCII, or wrongly padded, raises.
B64DecodeOk(s) ==
    LET d == SelectAlphabet(s)
    IN  /\ IsAscii(s)
        /\ \/ Len(d) % 4 = 0
           \/ Len(d) % 4 = 2 /\ CountPad(s) >= 2
           \/ Len(d) % 4 = 3 /\ CountPad(s) >= 1
B64Decode(s) == DecodeQuads(SelectAlphabet(s))

----------------------------------------------------------------------------
(* Paths.  A path is a stem and its suffix; Path.with_suffix replaces the   *)
(* suffix, and the staging path appends ".part" to it.                      *)

Stems == {"p1", "p2"}
Suffixes == {".pdf", ".html", ".json", ".md", ".pdf.part", ".html.part", ".json.part"}
Paths == [stem : Stems, suffix : Suffixes]
Dests == [stem : Stems, suffix : {".pdf"}]

with_suffix(p, suf) == [p EXCEPT !.suffix = suf]
html_dest_AsDest(dest) == dest
html_dest(dest) == with_suffix(dest, ".html")
json_dest(dest) == with_suffix(dest, ".json")
md_dest(dest) == with_suffix(dest, ".md")
tmp_path_InPlace(p) == p
tmp_path(p) == with_suffix(p, p.suffix \o ".part")

PartPaths == {p \in Paths : p.suffix \in {".pdf.part", ".html.part", ".json.part"}}

\* dest.exists() or html_dest.exists() or json_dest.exists() or md_dest.exists()
AlreadyExists_NoMd(f, dest) ==
    \/ f[dest].exists
    \/ f[html_dest(dest)].exists
    \/ f[json_dest(dest)].exists
AlreadyExists_OnlyDest(f, dest) == f[dest].exists
AlreadyExists(f, dest) ==
    \/ f[dest].exists
    \/ f[html_dest(dest)].exists
    \/ f[json_dest(dest)].exists
    \/ f[md_dest(dest)].exists

\* A file system maps every path to whether a file is there and to its bytes.
NoFile == [exists |-> FALSE, data |-> <<>>]
File(bytes) == [exists |-> TRUE, data |-> bytes]

\* tmp_path.unlink(missing_ok=True)
unlink_Skipped(f, p) == f
unlink(f, p) == [f EXCEPT ![p] = NoFile]

\* tmp_path.replace(dest): dest takes the staging file's content, which goes.
replace(f, tmp, dest) == [f EXCEPT ![dest] = f[tmp], ![tmp] = NoFile]

----------------------------------------------------------------------------
(* URLs.                                                                    *)

UrlPdfA  == <<"h","t","t","p",":","/","/","a","/","x",".","P","D","F">>   \* http://a/x.PDF
UrlPageA == <<"h","t","t","p",":","/","/","a","/","y">>                   \* http://a/y
UrlPageB == <<"h","t","t","p",":","/","/","b","/","z">>                   \* http://b/z
RequestUrls == {UrlPdfA, UrlPageA, UrlPageB}

\* First position at or after i where sub occurs in s, 0 when there is none.
FindFrom(s, sub, i) ==
    IF \E k \in i..(Len(s) + 1) : StartsWithAt(s, sub, k)
    THEN CHOOSE k \in i..(Len(s) + 1) :
            /\ StartsWithAt(s, sub, k)
            /\ \A j \in i..(k - 1) : ~StartsWithAt(s, sub, j)
    ELSE 0

\* The scheme-and-host prefix of a URL: everything before the first "/" that
\* follows "//".
Origin(url) ==
    LET p == FindFrom(url, <<"/", "/">>, 1)
        q == IF p = 0 THEN 0 ELSE FindFrom(url, <<"/">>, p + 2)
    IN  IF q = 0 THEN url ELSE SubSeq(url, 1, q - 1)

\* urlparse(url).netloc
get_domain(url) ==
    LET p == FindFrom(url, <<"/", "/">>, 1)
        o == Origin(url)
    IN  IF p = 0 THEN <<>> ELSE SubSeq(o, p + 2, Len(o))

\* Last position of "/" in s, 0 when there is none.
LastSlash(s) ==
    IF \E i \in 1..Len(s) : s[i] = "/"
    THEN CHOOSE i \in 1..Len(s) : s[i] = "/" /\ \A j \in (i+1)..Len(s) : s[j] # "/"
    ELSE 0

\* urllib.parse.urljoin(base, ref) for an absolute reference, a reference that
\* starts at the root, and a relative reference.
urljoin(base, ref) ==
    IF Contains(ref, <<":", "/", "/">>) THEN ref
    ELSE IF StartsWith(ref, <<"/">>) THEN Origin(base) \o ref
    ELSE SubSeq(base, 1, LastSlash(base)) \o ref

----------------------------------------------------------------------------
(* _extract_pdf_url: the two regular expressions, searched in order.  The   *)
(* patterns are raw strings in which every backslash is doubled, so the     *)
(* character class ["\\\'] holds the double quote, the backslash and the    *)
(* single quote, and "\\." is a backslash followed by any character.        *)

QuoteClass == {"\"", "\\", "'"}

\* First position at or after i of a character of the quote class, else 0.
NextQuote(s, i) ==
    IF \E k \in i..Len(s) : s[k] \in QuoteClass
    THEN CHOOSE k \in i..Len(s) :
            s[k] \in QuoteClass /\ \A j \in i..(k - 1) : s[j] \notin QuoteClass
    ELSE 0

\* Positions where href= followed by a character of the class occurs
\* (re.IGNORECASE).
HrefStarts(html) ==
    {i \in 1..Len(html) :
        /\ StartsWithAt(Lower(html), <<"h","r","e","f","=">>, i)
        /\ i + 5 <= Len(html)
        /\ html[i + 5] \in QuoteClass}

\* Pattern 1 at href position i: the end of group 1, 0 when it does not match.
\*   [^"\\\']+?  \\  .  pdf  (?: \\? [^"\\\']* )?  ["\\\']
Pattern1End(html, i) ==
    LET g  == i + 6
        e1 == NextQuote(html, g)
        k  == e1 + 5
    IN  IF ~ ( /\ e1 > g
               /\ html[e1] = "\\"
               /\ k <= Len(html)
               /\ html[e1 + 1] # "\n"
               /\ Lower(SubSeq(html, e1 + 2, e1 + 4)) = <<"p","d","f">> )
        THEN 0
        ELSE IF html[k] = "\\" /\ NextQuote(html, k + 1) > 0
             THEN NextQuote(html, k + 1) - 1
        ELSE IF html[k] \in QuoteClass THEN k - 1
        ELSE IF NextQuote(html, k) > 0 THEN NextQuote(html, k) - 1
        ELSE 0

\* Pattern 2 at href position i: the end of group 1, 0 when it does not match.
\*   [^"\\\']+  /pdf/  [^"\\\']*  ["\\\']
Pattern2End(html, i) ==
    LET g == i + 6
        e == NextQuote(html, g)
    IN  IF /\ e > g
           /\ \E k \in 2..(e - g) :
                StartsWithAt(Lower(SubSeq(html, g, e - 1)), <<"/","p","d","f","/">>, k)
        THEN e - 1
        ELSE 0

Min(S) == CHOOSE x \in S : \A y \in S : x <= y

\* re.search(pattern, html): group 1 of the leftmost match, empty without one
\* (group 1 of a match is never empty).
Search1(html) ==
    LET m == {i \in HrefStarts(html) : Pattern1End(html, i) > 0}
    IN  IF m = {} THEN <<>> ELSE SubSeq(html, Min(m) + 6, Pattern1End(html, Min(m)))
Search2(html) ==
    LET m == {i \in HrefStarts(html) : Pattern2End(html, i) > 0}
    IN  IF m = {} THEN <<>> ELSE SubSeq(html, Min(m) + 6, Pattern2End(html, Min(m)))

\* solution.get(key) or other
OrElse(v, other) == IF v = <<>> THEN other ELSE v

_extract_pdf_url(url, solution) ==
    LET html == OrElse(solution.response, <<>>)
    IN  IF html = <<>> THEN <<>>
        ELSE IF Search1(html) # <<>> THEN urljoin(OrElse(solution.url, url), Search1(html))
        ELSE IF Search2(html) # <<>> THEN urljoin(OrElse(solution.url, url), Search2(html))
        ELSE <<>>

----------------------------------------------------------------------------
(* What the collaborators can answer.                                       *)

\* Bounds of the model.
MaxCalls == 2

\* Page texts a solution can carry in "response".
PageHtml   == <<"<","H","T","M","L",">">>
LinkHtml   == <<"<","a"," ","h","r","e","f","=","\"","x","/","p","d","f","/","q","\"",">">>
DotPdfHtml == <<"<","a"," ","h","r","e","f","=","\"","/","f",".","p","d","f","\"",">">>
PlainText  == <<"o","k">>
LinkPageHtml == PageHtml \o LinkHtml                  \* <HTML><a href="x/pdf/q">

\* Captured bodies a solution can carry in "responseBody".
B64Pdf     == <<"J","V","B","E","R","i","0","=">>   \* base64 of %PDF-
B64Html    == <<"P","G","h","0","b","W","w","+">>   \* base64 of <html>
B64Json    == <<"e","3","0","=">>                   \* base64 of {}
B64Bad     == <<"J","V","B">>                       \* wrongly padded
B64Trunc   == <<"J","V","B","E","R","g","=","=">>   \* base64 of %PDF
B64Empty   == <<"=","=","=","=">>                   \* base64 of no byte at all
TextPdf    == <<" ","%","P","D","F","-">>           \* not base64: " %PDF-"
TextAccent == <<"é">>

MimePdf   == <<"a","p","p","l","i","c","a","t","i","o","n","/","p","d","f">>
MimePdfUp == <<"A","p","p","l","i","c","a","t","i","o","n","/","P","D","F">>
MimeHtml  == <<"t","e","x","t","/","H","T","M","L">>
MimeJson  == <<"a","p","p","l","i","c","a","t","i","o","n","/","j","s","o","n">>
MimePlain == <<"t","e","x","t","/","p","l","a","i","n">>

NoCookies   == <<>>
GoodCookies == <<[name |-> "cf", value |-> "tok"]>>
BadCookies  == <<[name |-> "cf", value |-> ""]>>

Sol(body, b64, bodyUrl, mime, bodyStatus, html, u, cookies, ua) ==
    [responseBody |-> body, responseBodyBase64 |-> b64, responseBodyUrl |-> bodyUrl,
     responseBodyMimeType |-> mime, responseBodyStatus |-> bodyStatus,
     response |-> html, url |-> u, cookies |-> cookies, userAgent |-> ua]

\* The empty solution: what `solution` holds before the resolver has answered.
NoSolution == Sol(<<>>, FALSE, <<>>, <<>>, 0, <<>>, <<>>, NoCookies, "")

Solutions ==
    { Sol(B64Pdf,     TRUE,  <<>>,    MimePdf,   200, PageHtml,   <<>>,     NoCookies,   "UA"),
      Sol(TextPdf,    FALSE, <<>>,    <<>>,      0,   <<>>,       <<>>,     NoCookies,   "UA"),
      Sol(B64Html,    TRUE,  <<>>,    MimeHtml,  200, PageHtml,   <<>>,     NoCookies,   "UA"),
      Sol(B64Html,    TRUE,  UrlPdfA, MimeHtml,  403, <<>>,       <<>>,     GoodCookies, "UA"),
      Sol(B64Json,    TRUE,  <<>>,    MimeJson,  200, <<>>,       <<>>,     NoCookies,   "UA"),
      Sol(B64Bad,     TRUE,  <<>>,    MimePdf,   200, PageHtml,   <<>>,     NoCookies,   "UA"),
      Sol(B64Trunc,   TRUE,  <<>>,    MimePdf,   200, <<>>,       <<>>,     NoCookies,   "UA"),
      Sol(B64Empty,   TRUE,  <<>>,    MimePlain, 200, <<>>,       <<>>,     NoCookies,   "UA"),
      Sol(TextAccent, TRUE,  <<>>,    MimePlain, 200, PageHtml,   <<>>,     NoCookies,   "UA"),
      Sol(TextAccent, FALSE, <<>>,    MimePlain, 200, PlainText,  <<>>,     GoodCookies, "UA"),
      Sol(<<>>,       FALSE, <<>>,    <<>>,      0,   PageHtml,   UrlPageA, GoodCookies, "UA"),
      Sol(<<>>,       FALSE, <<>>,    <<>>,      0,   LinkHtml,   UrlPageB, GoodCookies, "UA"),
      Sol(<<>>,       FALSE, <<>>,    <<>>,      0,   LinkPageHtml, UrlPageB, GoodCookies, "UA"),
      Sol(<<>>,       FALSE, <<>>,    <<>>,      0,   DotPdfHtml, <<>>,     BadCookies,  ""),
      Sol(<<>>,       FALSE, <<>>,    <<>>,      0,   <<>>,       UrlPageB, GoodCookies, "UA") }

\* What the POST to the resolver's /v1 endpoint can give: a request error (the
\* POST raises, or raise_for_status does), a body that is not JSON, or JSON
\* with a status, a message and possibly a solution.
Answer(kind, status, message, hasSolution, solution) ==
    [kind |-> kind, status |-> status, message |-> message,
     hasSolution |-> hasSolution, solution |-> solution]

ResolverAnswers ==
    { Answer("request_error", "", "", FALSE, NoSolution),
      Answer("non_json", "", "", FALSE, NoSolution),
      Answer("json", "error", "Error: Error solving the challenge. Cloudflare has blocked this request.",
             FALSE, NoSolution),
      Answer("json", "error", "", FALSE, NoSolution),
      Answer("json", "ok", "Challenge solved!", FALSE, NoSolution) }
    \cup { Answer("json", "ok", "Challenge solved!", TRUE, sol) : sol \in Solutions }

\* What the target server gives to the GET of _download_with_solution: the
\* request raises, or a response with a status, a content-type and a body in
\* chunks; failAt = k > 0 is a connection error while chunk k is read.
Served(error, status, contentType, chunks, failAt) ==
    [error |-> error, status |-> status, contentType |-> contentType,
     chunks |-> chunks, failAt |-> failAt]

PdfChunk  == <<37, 80, 68, 70, 45, 49>>          \* %PDF-1
PadChunk  == <<32, 10, 37, 80, 68, 70, 45>>      \* " \n%PDF-"
HtmlChunk == <<60, 104, 116, 109, 108, 62>>      \* <html>
TruncChunk == <<37, 80, 68, 70>>                 \* %PDF

ServerOutcomes ==
    { Served(TRUE,  0,   <<>>,      <<>>, 0),
      Served(FALSE, 200, MimePdf,   <<PdfChunk, <<1, 2>>>>, 0),
      Served(FALSE, 200, MimePdf,   <<PdfChunk, <<1, 2>>>>, 1),
      Served(FALSE, 200, MimePdf,   <<PdfChunk, <<1, 2>>>>, 2),
      Served(FALSE, 200, MimePdfUp, <<>>, 0),
      Served(FALSE, 200, <<>>,      <<PadChunk, <<>>, <<3>>>>, 0),
      Served(FALSE, 200, MimeHtml,  <<HtmlChunk>>, 0),
      Served(FALSE, 200, MimePlain, <<TruncChunk, PdfChunk>>, 0),
      Served(FALSE, 200, <<>>,      <<>>, 0),
      Served(FALSE, 404, MimeHtml,  <<HtmlChunk>>, 0),
      Served(FALSE, 503, MimePdf,   <<PdfChunk>>, 0) }

----------------------------------------------------------------------------
(* DownloadResult and the results the code builds.                          *)

DownloadResult(success, message, code, status_code, bytes_written, via) ==
    [success |-> success, message |-> message, code |-> code,
     status_code |-> status_code, bytes_written |-> bytes_written, via |-> via]

\* No result yet (status_code 0 stands for None).
NoResult == DownloadResult(FALSE, "", "", 0, 0, "")

ExistsResult == DownloadResult(TRUE, "Already exists", "exists", 0, 0, "api")
ApiErrorResult(message) == DownloadResult(FALSE, message, "api_error", 0, 0, "api")
DecodeErrorResult_Code == DownloadResult(FALSE, "Response body decode failed", "decode_failed", 0, 0, "api")
DecodeErrorResult == DownloadResult(FALSE, "Response body decode failed", "decode_error", 0, 0, "api")
BodyNotPdfResult(status) == DownloadResult(FALSE, "Not a PDF response", "not_pdf", status, 0, "api")
BodyNotHtmlResult(status) == DownloadResult(FALSE, "Not a PDF response", "not_html", status, 0, "api")
WriteErrorResult == DownloadResult(FALSE, "Failed to write file", "write_error", 0, 0, "api")
WrittenResult_NoBytes(code, status, n) == DownloadResult(TRUE, "Downloaded", code, status, 0, "api")
WrittenResult(code, status, n) == DownloadResult(TRUE, "Downloaded", code, status, n, "api")
RequestErrorResult == DownloadResult(FALSE, "Request failed", "request_error", 0, 0, "api")
HttpErrorResult_Success(status) == DownloadResult(TRUE, "HTTP", "http_error", status, 0, "api")
HttpErrorResult(status) == DownloadResult(FALSE, "HTTP", "http_error", status, 0, "api")
ReplayNotPdfResult(status) == DownloadResult(FALSE, "Not a PDF response", "not_pdf", status, 0, "api")
StreamedResult(status, n) == DownloadResult(TRUE, "Downloaded", "ok", status, n, "api")

----------------------------------------------------------------------------
(* Pure parts of the download path.                                         *)

\* _fetch_solution on one answer of the resolver: the solution, or the
\* message of the ApiDownloadError it raises.
_fetch_solution(answer) ==
    IF answer.kind = "request_error"
    THEN [ok |-> FALSE, message |-> "API request failed", solution |-> NoSolution]
    ELSE IF answer.kind = "non_json"
    THEN [ok |-> FALSE, message |-> "API response parsing failed", solution |-> NoSolution]
    ELSE IF answer.status # "ok"
    THEN [ok |-> FALSE,
          message |-> "API returned error: " \o
                      (IF answer.message # "" THEN answer.message
                       ELSE IF answer.status # "" THEN answer.status
                       ELSE "unknown error"),
          solution |-> NoSolution]
    ELSE IF ~answer.hasSolution
    THEN [ok |-> FALSE, message |-> "API response missing solution", solution |-> NoSolution]
    ELSE [ok |-> TRUE, message |-> "", solution |-> answer.solution]

\* The decoding of the captured body: base64.b64decode or str.encode("utf-8").
DecodeBody(solution) ==
    IF solution.responseBodyBase64
    THEN [ok |-> B64DecodeOk(solution.responseBody),
          payload |-> B64Decode(solution.responseBody)]
    ELSE [ok |-> TRUE, payload |-> Utf8Encode(solution.responseBody)]

BodyStep(kind, result, path, payload, code, markdown) ==
    [kind |-> kind, result |-> result, path |-> path, payload |-> payload,
     code |-> code, markdown |-> markdown]

\* _download_with_response_body up to its call of _write_payload: kind "none"
\* is the None it returns without a body, "result" a result built without
\* writing, "write" the _write_payload call it makes.
_download_with_response_body(url, dest, solution) ==
    LET dec        == DecodeBody(solution)
        target_url == Lower(OrElse(solution.responseBodyUrl, OrElse(solution.url, url)))
        mime_type  == Lower(solution.responseBodyMimeType)
        is_pdf_url == Contains(target_url, <<".","p","d","f">>)
        status     == solution.responseBodyStatus
    IN  IF solution.responseBody = <<>>
        THEN BodyStep("none", NoResult, dest, <<>>, "", FALSE)
        ELSE IF ~dec.ok
        THEN BodyStep("result", DecodeErrorResult, dest, <<>>, "", FALSE)
        ELSE IF SniffsPdf(dec.payload)
        THEN BodyStep("write", NoResult, dest, dec.payload, "ok", FALSE)
        ELSE IF is_pdf_url
        THEN BodyStep("result", BodyNotPdfResult(status), dest, <<>>, "", FALSE)
        ELSE IF Contains(mime_type, <<"h","t","m","l">>)
        THEN BodyStep("write", NoResult, html_dest(dest), dec.payload, "html", TRUE)
        ELSE IF Contains(mime_type, <<"j","s","o","n">>)
        THEN BodyStep("write", NoResult, json_dest(dest), dec.payload, "json", FALSE)
        ELSE BodyStep("result", BodyNotHtmlResult(status), dest, <<>>, "", FALSE)

\* download's test on a body result: returned unless it is not_pdf or not_html.
BodyResultReturned(r) == r.success \/ r.code \notin {"not_pdf", "not_html"}

\* not html or "<html" not in html.lower()
HasHtmlPage(solution) ==
    /\ solution.response # <<>>
    /\ Contains(Lower(solution.response), <<"<","h","t","m","l">>)

\* The cookies dictionary of _download_with_solution: name -> value for the
\* cookies that have both.
CookieJar(solution) ==
    {<<solution.cookies[i].name, solution.cookies[i].value>> :
        i \in {k \in 1..Len(solution.cookies) :
                 solution.cookies[k].name # "" /\ solution.cookies[k].value # ""}}

HeadersUserAgent == "Mozilla/5.0"

\* solution.get("userAgent") or self._headers.get("User-Agent")
ReplayUserAgent(solution) ==
    IF solution.userAgent # "" THEN solution.userAgent ELSE HeadersUserAgent

\* _is_pdf_response(response, first_chunk)
_is_pdf_response_TypeOnly(contentType, first_chunk) ==
    Contains(Lower(contentType), <<"p","d","f">>)
_is_pdf_response(contentType, first_chunk) ==
    \/ Contains(Lower(contentType), <<"p","d","f">>)
    \/ SniffsPdf(first_chunk)

----------------------------------------------------------------------------
(* The state of a run of download calls on one strategy instance.           *)

VARIABLES
    fs,             \* the files: path -> [exists, data]
    pc,             \* where the current download call is; "idle" between calls
    call,           \* the current call: url, dest, and what the target server
                    \* answered to the GET of this call, once it is made
    fs0,            \* the files as they were when the current call started
    cur,            \* the stage (1: the URL, 2: the discovered PDF link), the
                    \* URL resolved at this stage and the solution obtained
    wr,             \* the _write_payload call in progress
    stream,         \* the streaming of _download_with_solution: next chunk, bytes written
    result,         \* the DownloadResult returned (pc = "done")
    events,         \* the network calls of the current call, in order
    bodyCodes,      \* the outcome of _download_with_response_body at each stage
    nCalls,         \* download calls completed
    failedDomains,  \* domains of the URLs whose resolver invocation has failed
    stored          \* the artifacts of the calls that returned ok, html or json,
                    \* as they were when the call returned

dvars == <<fs, pc, call, fs0, cur, wr, stream, result, events, bodyCodes,
           nCalls, failedDomains, stored>>

EmptyFs == [p \in Paths |-> NoFile]

\* The files a run can start from: nothing, or one artifact of an earlier run
\* at stem p2.
InitialFs ==
    {EmptyFs}
    \cup {[EmptyFs EXCEPT ![[stem |-> "p2", suffix |-> suf]] = File(PdfChunk)] :
             suf \in {".pdf", ".html", ".json", ".md"}}

NoServer == Served(FALSE, 0, <<>>, <<>>, 0)
NoCall == [url |-> <<>>, dest |-> [stem |-> "p1", suffix |-> ".pdf"], server |-> NoServer]
NoCur == [stage |-> 0, url |-> <<>>, solution |-> NoSolution]
NoWrite == [path |-> [stem |-> "p1", suffix |-> ".pdf"], payload |-> <<>>,
            code |-> "", markdown |-> FALSE]
NoStream == [idx |-> 0, bytes_written |-> 0]

ResolverEvent(url) == [kind |-> "resolver", url |-> url, cookies |-> {}, userAgent |-> ""]
HttpEvent(url, cookies, ua) == [kind |-> "http", url |-> url, cookies |-> cookies, userAgent |-> ua]

DInit ==
    /\ fs \in InitialFs
    /\ pc = "idle"
    /\ call = NoCall
    /\ fs0 = fs
    /\ cur = NoCur
    /\ wr = NoWrite
    /\ stream = NoStream
    /\ result = NoResult
    /\ events = <<>>
    /\ bodyCodes = <<>>
    /\ nCalls = 0
    /\ failedDomains = {}
    /\ stored = {}

\* The call returns r.
Returns(r) == result' = r /\ pc' = "done"

\* download(url, dest), lines 41-52: the existence test.  The parent directory
\* is there (playground/download.py creates it when it is loaded), so the
\* mkdir of line 42 does nothing.
Download(url, dest) ==
    /\ pc = "idle"
    /\ nCalls < MaxCalls
    /\ call' = [url |-> url, dest |-> dest, server |-> NoServer]
    /\ fs0' = fs
    /\ IF AlreadyExists(fs, dest)
       THEN Returns(ExistsResult) /\ cur' = NoCur
       ELSE /\ pc' = "fetch"
            /\ cur' = [stage |-> 1, url |-> url, solution |-> NoSolution]
            /\ result' = NoResult
    /\ UNCHANGED <<fs, wr, stream, events, bodyCodes, nCalls, failedDomains, stored>>

\* self._fetch_solution(url, return_body=True) and the except ApiDownloadError
\* of download, lines 54-64 (stage 1) and 81-90 (stage 2).
FetchSolution(answer) ==
    /\ pc = "fetch"
    /\ events' = Append(events, ResolverEvent(cur.url))
    /\ LET got == _fetch_solution(answer)
       IN  IF got.ok
           THEN /\ cur' = [cur EXCEPT !.solution = got.solution]
                /\ pc' = "body"
                /\ UNCHANGED <<result, failedDomains>>
           ELSE /\ Returns(ApiErrorResult(got.message))
                /\ failedDomains' = failedDomains \cup {get_domain(cur.url)}
                /\ UNCHANGED cur
    /\ UNCHANGED <<fs, call, fs0, wr, stream, bodyCodes, nCalls, stored>>

\* Where download goes when the body step gave nothing it returns: step 3 at
\* stage 1 (line 74), the replay at stage 2 (line 96).
AfterBody_Html == "html"
AfterBody == IF cur.stage = 1 THEN "html" ELSE "replay"

\* _download_with_response_body and download's test of its result,
\* lines 67-71 (stage 1) and 91-95 (stage 2).
ResponseBody ==
    /\ pc = "body"
    /\ LET step == _download_with_response_body(cur.url, call.dest, cur.solution)
       IN  /\ bodyCodes' = Append(bodyCodes,
                                  IF step.kind = "result" THEN step.result.code ELSE step.kind)
           /\ IF step.kind = "write"
              THEN /\ wr' = [path |-> step.path, payload |-> step.payload,
                             code |-> step.code, markdown |-> step.markdown]
                   /\ pc' = "w_open"
                   /\ UNCHANGED result
              ELSE IF step.kind = "result" /\ BodyResultReturned(step.result)
              THEN Returns(step.result) /\ UNCHANGED wr
              ELSE pc' = AfterBody /\ UNCHANGED <<wr, result>>
    /\ UNCHANGED <<fs, call, fs0, cur, stream, events, nCalls, failedDomains, stored>>

\* _download_with_html_response, lines 73-76 and 224-230.
HtmlResponse ==
    /\ pc = "html"
    /\ IF HasHtmlPage(cur.solution)
       THEN /\ wr' = [path |-> html_dest(call.dest),
                      payload |-> Utf8Encode(cur.solution.response),
                      code |-> "html", markdown |-> TRUE]
            /\ pc' = "w_open"
       ELSE pc' = "extract" /\ UNCHANGED wr
    /\ UNCHANGED <<fs, call, fs0, cur, stream, result, events, bodyCodes, nCalls,
                   failedDomains, stored>>

\* Step 4, lines 78-80 and 98-99: a discovered PDF link starts stage 2.
ExtractPdfUrl ==
    /\ pc = "extract"
    /\ LET pdf_url == _extract_pdf_url(call.url, cur.solution)
       IN  IF pdf_url # <<>>
           THEN /\ cur' = [stage |-> 2, url |-> pdf_url, solution |-> NoSolution]
                /\ pc' = "fetch"
           ELSE pc' = "replay" /\ UNCHANGED cur
    /\ UNCHANGED <<fs, call, fs0, wr, stream, result, events, bodyCodes, nCalls,
                   failedDomains, stored>>

----------------------------------------------------------------------------
(* _write_payload, lines 235-264, one file operation per step.              *)

\* The OSError handler: the staging file is unlinked and write_error returned.
WriteFailed(path) ==
    /\ fs' = unlink(fs, tmp_path(path))
    /\ Returns(WriteErrorResult)

\* open(tmp_path, "wb")
WriteOpen ==
    /\ pc = "w_open"
    /\ \/ fs' = [fs EXCEPT ![tmp_path(wr.path)] = File(<<>>)] /\ pc' = "w_data"
                /\ UNCHANGED result
       \/ WriteFailed(wr.path)
    /\ UNCHANGED <<call, fs0, cur, wr, stream, events, bodyCodes, nCalls, failedDomains, stored>>

\* handle.write(payload)
WriteData ==
    /\ pc = "w_data"
    /\ \/ fs' = [fs EXCEPT ![tmp_path(wr.path)] = File(wr.payload)] /\ pc' = "w_replace"
                /\ UNCHANGED result
       \/ WriteFailed(wr.path)
    /\ UNCHANGED <<call, fs0, cur, wr, stream, events, bodyCodes, nCalls, failedDomains, stored>>

\* tmp_path.replace(dest) and the success result; _write_markdown follows for
\* an .html artifact (lines 204-205 and 231-232).
WriteReplace ==
    /\ pc = "w_replace"
    /\ \/ /\ fs' = replace(fs, tmp_path(wr.path), wr.path)
          /\ result' = WrittenResult(wr.code, cur.solution.responseBodyStatus,
                                     Len(wr.payload))
          /\ pc' = IF wr.markdown THEN "markdown" ELSE "done"
       \/ WriteFailed(wr.path)
    /\ UNCHANGED <<call, fs0, cur, wr, stream, events, bodyCodes, nCalls, failedDomains, stored>>

\* What the converter can produce from a page.
MarkdownBytes == <<35, 32, 120>>   \* "# x"

\* _write_markdown(html_path), lines 266-285: nothing when markitdown is not
\* there or the conversion raises; else the .md file is opened for writing and
\* written, either of which can fail.
WriteMarkdown ==
    /\ pc = "markdown"
    /\ \/ UNCHANGED fs
       \/ fs' = [fs EXCEPT ![md_dest(call.dest)] = File(<<>>)]
       \/ fs' = [fs EXCEPT ![md_dest(call.dest)] = File(MarkdownBytes)]
    /\ pc' = "done"
    /\ UNCHANGED <<call, fs0, cur, wr, stream, result, events, bodyCodes, nCalls,
                   failedDomains, stored>>

----------------------------------------------------------------------------
(* _download_with_solution, lines 304-436.                                  *)

\* session.get(target_url, cookies=cookies, stream=True), lines 306-354.
ReplayGet(server) ==
    /\ pc = "replay"
    /\ call' = [call EXCEPT !.server = server]
    /\ events' = Append(events,
                        HttpEvent(OrElse(cur.solution.url, cur.url),
                                  CookieJar(cur.solution),
                                  ReplayUserAgent(cur.solution)))
    /\ IF server.error
       THEN Returns(RequestErrorResult)
       ELSE pc' = "first_chunk" /\ UNCHANGED result
    /\ UNCHANGED <<fs, fs0, cur, wr, stream, bodyCodes, nCalls, failedDomains, stored>>

\* The first chunk of the response as next(iterator, b"") gives it.
FirstChunkOf(server) == IF server.chunks = <<>> THEN <<>> ELSE server.chunks[1]

\* first_chunk = next(iterator, b"") and the two checks, lines 364-398.  The
\* read of the first chunk is outside every try: a connection error there
\* leaves download as an exception.
FirstChunk ==
    /\ pc = "first_chunk"
    /\ IF call.server.failAt = 1
       THEN pc' = "raised" /\ UNCHANGED <<result, stream>>
       ELSE IF call.server.status >= 400
       THEN Returns(HttpErrorResult(call.server.status)) /\ UNCHANGED stream
       ELSE IF ~_is_pdf_response(call.server.contentType, FirstChunkOf(call.server))
       THEN Returns(ReplayNotPdfResult(call.server.status)) /\ UNCHANGED stream
       ELSE /\ pc' = "s_open"
            /\ stream' = [idx |-> 1, bytes_written |-> 0]
            /\ UNCHANGED result
    /\ UNCHANGED <<fs, call, fs0, cur, wr, events, bodyCodes, nCalls, failedDomains, stored>>

\* The except OSError of lines 414-421; the exceptions of requests are
\* OSErrors too, so a failed read of a later chunk ends here as well.
StreamFailed ==
    /\ fs' = unlink(fs, tmp_path(call.dest))
    /\ Returns(WriteErrorResult)

\* open(tmp_path, "wb"), line 404
StreamOpen ==
    /\ pc = "s_open"
    /\ \/ /\ fs' = [fs EXCEPT ![tmp_path(call.dest)] = File(<<>>)]
          /\ pc' = "s_write"
          /\ UNCHANGED result
       \/ StreamFailed
    /\ UNCHANGED <<call, fs0, cur, wr, stream, events, bodyCodes, nCalls, failedDomains, stored>>

\* One chunk, lines 405-412: the first chunk is already read; a later one is
\* read from the connection first; an empty chunk is skipped.
StreamChunk ==
    /\ pc = "s_write"
    /\ stream.idx <= Len(call.server.chunks)
    /\ LET chunk == call.server.chunks[stream.idx]
           tmp   == tmp_path(call.dest)
       IN  IF stream.idx > 1 /\ call.server.failAt = stream.idx
           THEN StreamFailed /\ UNCHANGED stream
           ELSE IF chunk = <<>>
           THEN /\ stream' = [stream EXCEPT !.idx = @ + 1]
                /\ UNCHANGED <<fs, pc, result>>
           ELSE \/ /\ fs' = [fs EXCEPT ![tmp] = File(fs[tmp].data \o chunk)]
                   /\ stream' = [idx |-> stream.idx + 1,
                                 bytes_written |-> stream.bytes_written + Len(chunk)]
                   /\ UNCHANGED <<pc, result>>
                \/ StreamFailed /\ UNCHANGED stream
    /\ UNCHANGED <<call, fs0, cur, wr, events, bodyCodes, nCalls, failedDomains, stored>>

\* tmp_path.replace(dest) and the success result, lines 413 and 423-436.
StreamReplace ==
    /\ pc = "s_write"
    /\ stream.idx > Len(call.server.chunks)
    /\ \/ /\ fs' = replace(fs, tmp_path(call.dest), call.dest)
          /\ Returns(StreamedResult(call.server.status, stream.bytes_written))
       \/ StreamFailed
    /\ UNCHANGED <<call, fs0, cur, wr, stream, events, bodyCodes, nCalls, failedDomains, stored>>

\* What a call that returned ok, html or json has left: the artifact of the
\* code and its file.
ArtifactOf(dest, code) ==
    IF code = "html" THEN html_dest(dest)
    ELSE IF code = "json" THEN json_dest(dest)
    ELSE dest
Stored(dest, path, f) == [dest |-> dest, path |-> path, file |-> f[path]]

\* The call is over (a result returned, or an exception raised to the
\* caller); the strategy instance keeps nothing from it.
Return ==
    /\ pc \in {"done", "raised"}
    /\ pc' = "idle"
    /\ nCalls' = nCalls + 1
    /\ call' = NoCall
    /\ fs0' = fs
    /\ cur' = NoCur
    /\ wr' = NoWrite
    /\ stream' = NoStream
    /\ result' = NoResult
    /\ events' = <<>>
    /\ bodyCodes' = <<>>
    /\ stored' = IF pc = "done" /\ result.code \in {"ok", "html", "json"}
                 THEN stored \cup {Stored(call.dest, ArtifactOf(call.dest, result.code), fs)}
                 ELSE stored
    /\ UNCHANGED <<fs, failedDomains>>

----------------------------------------------------------------------------
(* Response-body candidates: _normalize_url, _score_response_candidate and  *)
(* the selection of _extract_response_body.                                 *)

StripChars == {" ", "\t", "\n"}

RECURSIVE LStripText(_, _)
\* str.lstrip(chars)
LStripText(s, chars) ==
    IF s # <<>> /\ Head(s) \in chars THEN LStripText(Tail(s), chars) ELSE s

RECURSIVE RStripText(_, _)
\* str.rstrip(chars)
RStripText(s, chars) ==
    IF s # <<>> /\ s[Len(s)] \in chars
    THEN RStripText(SubSeq(s, 1, Len(s) - 1), chars)
    ELSE s

\* url.strip().lower().rstrip("/")
_normalize_url(url) ==
    RStripText(Lower(RStripText(LStripText(url, StripChars), StripChars)), {"/"})

DotPdf == <<".", "p", "d", "f">>
Pdf    == <<"p", "d", "f">>

\* The points of lines 388-399; status 0 stands for None.
ScoreExact    == 10
ScorePrefix   == 4
ScoreMime     == 6
ScoreDotPdf   == 4
ScoreDocument == 2
ScoreStatus   == 1

_score_response_candidate_NoPrefix(url, mime_type, status, resource_type, targets) ==
    LET normalized_url == _normalize_url(url)
    IN  (IF normalized_url \in targets THEN ScoreExact ELSE 0)
      + (IF Contains(Lower(mime_type), Pdf) THEN ScoreMime ELSE 0)
      + (IF Contains(normalized_url, DotPdf) THEN ScoreDotPdf ELSE 0)
      + (IF resource_type = "Document" THEN ScoreDocument ELSE 0)
      + (IF status # 0 /\ 200 <= status /\ status < 300 THEN ScoreStatus ELSE 0)
_score_response_candidate(url, mime_type, status, resource_type, targets) ==
    LET normalized_url == _normalize_url(url)
    IN  (IF normalized_url \in targets THEN ScoreExact ELSE 0)
      + (IF \E target \in targets :
               StartsWith(normalized_url, target) \/ StartsWith(target, normalized_url)
         THEN ScorePrefix ELSE 0)
      + (IF Contains(Lower(mime_type), Pdf) THEN ScoreMime ELSE 0)
      + (IF Contains(normalized_url, DotPdf) THEN ScoreDotPdf ELSE 0)
      + (IF resource_type = "Document" THEN ScoreDocument ELSE 0)
      + (IF status # 0 /\ 200 <= status /\ status < 300 THEN ScoreStatus ELSE 0)

\* One entry of the driver's performance log.  kind is what the entry's
\* message is: "response" a Network.responseReceived event, "other" an event
\* of another method, "garbled" text that json.loads rejects, "empty" no
\* message at all.  requestId "" and url <<>> stand for a missing field.
LogEntry(kind, requestId, url, mimeType, status, type) ==
    [kind |-> kind, requestId |-> requestId, url |-> url, mimeType |-> mimeType,
     status |-> status, type |-> type]

UrlPageASlash == UrlPageA \o <<"/">>                                  \* http://a/y/
UrlQueryPdf   == UrlPageA \o <<"?","f","=",".","p","d","f">>          \* http://a/y?f=.pdf
UrlHostA      == <<"h","t","t","p",":","/","/","a">>                  \* http://a
UrlSpaced     == <<" ">> \o UrlPageB \o <<"\n">>                      \* " http://b/z\n"

EntryPdf      == LogEntry("response", "r1", UrlPdfA, MimePdf, 200, "Document")
EntryPage     == LogEntry("response", "r2", UrlPageA, MimeHtml, 200, "Document")
EntrySlash    == LogEntry("response", "r3", UrlPageASlash, MimeHtml, 404, "XHR")
EntryOther    == LogEntry("response", "r4", UrlSpaced, MimePlain, 0, "Image")
EntryQuery    == LogEntry("response", "r5", UrlQueryPdf, MimePlain, 302, "Other")
EntryHost     == LogEntry("response", "r6", UrlHostA, MimePdfUp, 204, "Script")
EntryRequest  == LogEntry("other", "r1", UrlPdfA, MimePdf, 200, "Document")
EntryGarbled  == LogEntry("garbled", "", <<>>, <<>>, 0, "")
EntryNoId     == LogEntry("response", "", UrlPdfA, MimePdf, 200, "Document")

LogEntries == {EntryPdf, EntryPage, EntrySlash, EntryOther, EntryQuery,
               EntryHost, EntryRequest, EntryGarbled, EntryNoId}

\* Lines 413-427: the entries that reach the scoring.
IsResponseEvent(entry) ==
    /\ entry.kind = "response"
    /\ entry.requestId # ""
    /\ entry.url # <<>>

\* Line 410: the targets, from req.url and driver.current_url.
Targets(url, current_url) ==
    {_normalize_url(u) : u \in {v \in {url, current_url} : v # <<>>}}

Candidate(score, index, entry) ==
    [score |-> score, index |-> index, request_id |-> entry.requestId,
     url |-> entry.url, mime_type |-> entry.mimeType, status |-> entry.status]

\* Line 431, for the entry at position i of the log.
ScoreOf(perf_logs, targets, i) ==
    _score_response_candidate(perf_logs[i].url, perf_logs[i].mimeType,
                              perf_logs[i].status, perf_logs[i].type, targets)

RECURSIVE CandidatesFrom(_, _, _)
\* Lines 412-433, from position i of the log on: the response events whose
\* score is greater than 0, in log order; index counts from 0 as enumerate
\* does.
CandidatesFrom(perf_logs, targets, i) ==
    IF i > Len(perf_logs) THEN <<>>
    ELSE (IF IsResponseEvent(perf_logs[i]) /\ ScoreOf(perf_logs, targets, i) > 0
          THEN <<Candidate(ScoreOf(perf_logs, targets, i), i - 1, perf_logs[i])>>
          ELSE <<>>) \o CandidatesFrom(perf_logs, targets, i + 1)

\* Lines 411-433: the candidates.
Candidates(perf_logs, targets) == CandidatesFrom(perf_logs, targets, 1)

\* The order of the keys (score, index) of line 439.
KeyLess_EarliestFirst(a, b) == a.score < b.score \/ (a.score = b.score /\ a.index > b.index)
KeyLess(a, b) == a.score < b.score \/ (a.score = b.score /\ a.index < b.index)

RECURSIVE InsertDesc(_, _)
\* c put into a sequence that is in descending key order.
InsertDesc(c, sorted) ==
    IF sorted = <<>> THEN <<c>>
    ELSE IF KeyLess(Head(sorted), c) THEN <<c>> \o sorted
    ELSE <<Head(sorted)>> \o InsertDesc(c, Tail(sorted))

RECURSIVE SortDesc(_)
\* candidates.sort(key=lambda item: (item[0], item[1]), reverse=True)
SortDesc(candidates) ==
    IF candidates = <<>> THEN <<>>
    ELSE InsertDesc(Head(candidates), SortDesc(Tail(candidates)))
----------------------------------------------------------------------------
(* The resolver: controller_v1_endpoint of flaresolverr_service.py, the     *)
(* commands it dispatches, _resolve_challenge and _evil_logic, the driver   *)
(* they lease and the page the driver shows.                                *)

MaxRequests == 2

\* The title lists of lines 27-32 and 39-44.
TitleDenied == <<"A","c","c","e","s","s"," ","d","e","n","i","e","d">>   \* Access denied
TitleAttention == <<"A","t","t","e","n","t","i","o","n"," ","R","e","q","u","i","r","e","d","!"," ","|"," ","C","l","o","u","d","f","l","a","r","e">>   \* Attention Required! | Cloudflare
TitleMoment == <<"J","u","s","t"," ","a"," ","m","o","m","e","n","t",".",".",".">>   \* Just a moment...
TitleDdosGuard == <<"D","D","o","S","-","G","u","a","r","d">>   \* DDoS-Guard
ACCESS_DENIED_TITLES == {TitleDenied, TitleAttention}
CHALLENGE_TITLES == {TitleMoment, TitleDdosGuard}

\* Other titles a page can have.
TitlePaper == <<"P","a","p","e","r">>   \* Paper
TitleDeniedMore == <<"A","c","c","e","s","s"," ","d","e","n","i","e","d"," ","|"," ","x">>   \* Access denied | x
TitleMomentLower == <<"j","u","s","t"," ","a"," ","m","o","m","e","n","t",".",".",".">>   \* just a moment...
TitleMomentMore == <<"J","u","s","t"," ","a"," ","m","o","m","e","n","t",".",".","."," ","x">>   \* Just a moment... x

\* What the driver's page shows: its title, whether an element matches one
\* of ACCESS_DENIED_SELECTORS, one of CHALLENGE_SELECTORS, and
\* TURNSTILE_SELECTORS.
Page(title, denied_selector, challenge_selector, turnstile) ==
    [title |-> title, denied_selector |-> denied_selector,
     challenge_selector |-> challenge_selector, turnstile |-> turnstile]

BlankPage == Page(<<>>, FALSE, FALSE, FALSE)

Pages == {Page(TitlePaper, FALSE, FALSE, FALSE),
          Page(TitlePaper, FALSE, FALSE, TRUE),
          Page(TitlePaper, FALSE, TRUE, FALSE),
          Page(TitleDenied, FALSE, FALSE, FALSE),
          Page(TitleDeniedMore, FALSE, TRUE, FALSE),
          Page(TitleMoment, TRUE, FALSE, FALSE),
          Page(TitleMoment, FALSE, FALSE, FALSE),
          Page(TitleMomentLower, FALSE, FALSE, FALSE),
          Page(TitleMomentMore, FALSE, FALSE, FALSE)}

\* Lines 570-579: the access-denied test.
AccessDenied_TitleEquals(p) ==
    \/ p.title \in ACCESS_DENIED_TITLES
    \/ p.denied_selector
AccessDenied(p) ==
    \/ \E title \in ACCESS_DENIED_TITLES : StartsWith(p.title, title)
    \/ p.denied_selector

\* Lines 582-595: challenge_found.
ChallengeFound_Never(p) == FALSE
ChallengeFound(p) ==
    \/ \E title \in CHALLENGE_TITLES : Lower(title) = Lower(p.title)
    \/ p.challenge_selector

\* The waits of one pass of the wait loop, in the order of lines 603-611:
\* one for each title of CHALLENGE_TITLES, as the list has them, then the
\* waits for the selectors of CHALLENGE_SELECTORS (a page tells only whether
\* any of them matches, so these are one wait here).
Wait(kind, title) == [kind |-> kind, title |-> title]
ChallengeWaits_TitlesOnly ==
    <<Wait("title", TitleMoment), Wait("title", TitleDdosGuard)>>
ChallengeWaits ==
    <<Wait("title", TitleMoment), Wait("title", TitleDdosGuard), Wait("selectors", <<>>)>>

\* WebDriverWait(driver, SHORT_TIMEOUT).until_not(...) raises
\* TimeoutException: what the wait waits for to go is still there (title_is
\* compares the title exactly).
WaitTimesOut(w, p) ==
    IF w.kind = "title" THEN p.title = w.title ELSE p.challenge_selector

\* The message of lines 572-573 and 578-579.
BlockedMessage ==
    "Cloudflare has blocked this request. Probably your IP is banned for this site, check in your web browser."

\* ---- requests ----------------------------------------------------------

SessionIds == {"s1"}

\* tabs_till_verify = None
NoTabs == -1

DefaultMaxTimeout == 60000

\* A V1RequestBase.  cmd "" , url <<>>, postData "", session "", maxTimeout 0
\* and waitInSeconds 0 stand for a field that is None.
NoReq ==
    [cmd |-> "", url |-> <<>>, postData |-> "", session |-> "", maxTimeout |-> 0,
     returnOnlyCookies |-> FALSE, waitInSeconds |-> 0, returnResponseBody |-> FALSE,
     returnScreenshot |-> FALSE, tabs_till_verify |-> NoTabs, cookies |-> NoCookies]

Get  == [NoReq EXCEPT !.cmd = "request.get", !.url = UrlPdfA]
Post == [NoReq EXCEPT !.cmd = "request.post", !.url = UrlPdfA, !.postData = "a=1"]

Requests ==
    {NoReq,
     [NoReq EXCEPT !.cmd = "request.put"],
     [NoReq EXCEPT !.cmd = "sessions.create", !.session = "s1"],
     [NoReq EXCEPT !.cmd = "sessions.list"],
     [NoReq EXCEPT !.cmd = "sessions.destroy", !.session = "s1"],
     [Get EXCEPT !.url = <<>>],
     [Get EXCEPT !.postData = "a=1"],
     [Post EXCEPT !.postData = ""],
     [Post EXCEPT !.postData = "", !.session = "s1"],
     [Get EXCEPT !.url = <<>>, !.session = "s1", !.returnResponseBody = TRUE],
     Get,
     [Post EXCEPT !.session = "s1", !.maxTimeout = 1500, !.waitInSeconds = 2,
                  !.cookies = GoodCookies],
     [Get EXCEPT !.returnOnlyCookies = TRUE, !.waitInSeconds = 2,
                 !.returnResponseBody = TRUE, !.returnScreenshot = TRUE],
     [Get EXCEPT !.returnResponseBody = TRUE, !.returnScreenshot = TRUE],
     [Post EXCEPT !.returnResponseBody = TRUE, !.tabs_till_verify = 1],
     [Get EXCEPT !.tabs_till_verify = 1]}

\* Lines 173-174: maxTimeout takes its default.
WithDefaults(r) ==
    IF r.maxTimeout = 0 \/ r.maxTimeout < 1
    THEN [r EXCEPT !.maxTimeout = DefaultMaxTimeout]
    ELSE r

\* str(int(ms) / 1000): the seconds as Python prints the float.
SecondsText(ms) ==
    LET frac == ms % 1000
        a == frac \div 100
        b == (frac \div 10) % 10
        c == frac % 10
    IN  ToString(ms \div 1000) \o "." \o
        (IF c # 0 THEN ToString(a) \o ToString(b) \o ToString(c)
         ELSE IF b # 0 THEN ToString(a) \o ToString(b)
         ELSE ToString(a))

\* ---- what a resolution builds -------------------------------------------

\* The captured body of lines 452-458 and 497-503; NoBody is None.
Body(body, base64Encoded, url, mimeType, status) ==
    [found |-> TRUE, body |-> body, base64Encoded |-> base64Encoded, url |-> url,
     mimeType |-> mimeType, status |-> status]
NoBody ==
    [found |-> FALSE, body |-> <<>>, base64Encoded |-> FALSE, url |-> <<>>,
     mimeType |-> <<>>, status |-> 0]

\* A ChallengeResolutionResultT: `has` holds the names of the attributes that
\* were assigned, the others are as the constructor left them.
NoChallengeRes ==
    [has |-> {}, url |-> <<>>, status |-> 0, cookies |-> NoCookies, userAgent |-> "",
     turnstile_token |-> "", response |-> BlankPage, responseBody |-> NoBody]

UserAgent == "Mozilla/5.0"
\* What driver.current_url and driver.get_cookies() give, lines 639 and 641.
DriverReads == {<<UrlPdfA, NoCookies>>, <<UrlPageA, GoodCookies>>}
TokenValues == {"", "t0", "t1"}

\* The locals of _resolve_challenge and _evil_logic, and what the run did.
\* navigator is the call that loaded the page first, turnstile_found whether
\* the turnstile input was there then, value_read the last value read from
\* it, title_kept whether the challenge was found by its title and the title
\* is still the same, pass the waits of the current pass of the wait loop
\* that have succeeded.
NoRun ==
    [method |-> "", turnstile_token |-> "", baseline |-> "", challenge_found |-> FALSE,
     message |-> "", challenge_res |-> NoChallengeRes,
     navigations |-> 0, turnstile_verifies |-> FALSE, waits |-> FALSE,
     verifies |-> FALSE, slept |-> FALSE, log_read |-> FALSE, log_body |-> FALSE,
     fetch_run |-> FALSE,
     navigator |-> "", turnstile_found |-> FALSE, value_read |-> "",
     title_kept |-> FALSE, pass |-> <<>>]

\* How a function ended: it returned (status, message, result) or raised
\* (message).
NoOut == [kind |-> "", status |-> "", message |-> "", result |-> NoChallengeRes]
Returned(status, message, cres) ==
    [kind |-> "return", status |-> status, message |-> message, result |-> cres]
Raised(message) ==
    [kind |-> "raise", status |-> "", message |-> message, result |-> NoChallengeRes]

\* A V1ResponseBase as controller_v1_endpoint returns it.
NoRes ==
    [status |-> "", message |-> "", solution |-> NoChallengeRes,
     startTimestamp |-> FALSE, endTimestamp |-> FALSE, version |-> FALSE]

VARIABLES
    rpc,        \* where the request being handled is; "idle" between requests
    req,        \* the request
    platform,   \* utils.PLATFORM_VERSION
    driver,     \* the local variable `driver` of _resolve_challenge: 0 is None
    alive,      \* the drivers that have been created and not quit
    closed,     \* the drivers whose window driver.close() has closed
    sessions,   \* SESSIONS_STORAGE: session id -> its driver, 0 without one
    page,       \* what the driver's page shows
    run,        \* the locals of the resolution and what it did so far
    rout,       \* how _controller_v1_handler ended: returned value or exception
    res,        \* the response of controller_v1_endpoint
    nDrivers,   \* drivers created so far
    nReqs       \* requests answered so far

rvars == <<rpc, req, platform, driver, alive, closed, sessions, page, run, rout,
           res, nDrivers, nReqs>>

RInit ==
    /\ rpc = "idle"
    /\ req = NoReq
    /\ platform \in {"nt", "posix"}
    /\ driver = 0
    /\ alive = {}
    /\ closed = {}
    /\ sessions = [id \in SessionIds |-> 0]
    /\ page = BlankPage
    /\ run = NoRun
    /\ rout = NoOut
    /\ res = NoRes
    /\ nDrivers = 0
    /\ nReqs = 0

\* controller_v1_endpoint is called with the request r, lines 133-143, and
\* _controller_v1_handler sets the defaults, lines 173-174.
Receive(r) ==
    /\ rpc = "idle"
    /\ nReqs < MaxRequests
    /\ req' = WithDefaults(r)

\* _controller_v1_handler, lines 165-166 and 188-189: no cmd, or a cmd that
\* is none of the five.
Commands == {"sessions.create", "sessions.list", "sessions.destroy",
             "request.get", "request.post"}
_controller_v1_handler(r) ==
    /\ Receive(r)
    /\ r.cmd \notin Commands
    /\ rout' = IF r.cmd = ""
               THEN Raised("Request parameter 'cmd' is mandatory.")
               ELSE Raised("Request parameter 'cmd' = '" \o r.cmd \o "' is invalid.")
    /\ rpc' = "ended"
    /\ UNCHANGED <<platform, driver, alive, closed, sessions, page, run, res,
                   nDrivers, nReqs>>

\* SESSIONS_STORAGE.create(session_id): the session is made, with a driver of
\* its own, unless it is there already.
StorageCreate(id) ==
    IF sessions[id] # 0
    THEN UNCHANGED <<sessions, alive, nDrivers>>
    ELSE /\ nDrivers' = nDrivers + 1
         /\ alive' = alive \cup {nDrivers + 1}
         /\ sessions' = [sessions EXCEPT ![id] = nDrivers + 1]

\* SESSIONS_STORAGE.destroy(session_id): the session goes and its driver is
\* quit.
StorageDestroy(id) ==
    /\ alive' = alive \ {sessions[id]}
    /\ sessions' = [sessions EXCEPT ![id] = 0]

\* _cmd_sessions_create, lines 230-247.
_cmd_sessions_create(r) ==
    /\ Receive(r)
    /\ r.cmd = "sessions.create"
    /\ r.session \in SessionIds
    /\ StorageCreate(r.session)
    /\ rout' = Returned("ok",
                        IF sessions[r.session] # 0 THEN "Session already exists."
                        ELSE "Session created successfully.",
                        NoChallengeRes)
    /\ rpc' = "ended"
    /\ UNCHANGED <<platform, driver, closed, page, run, res, nReqs>>

\* _cmd_sessions_list, lines 250-257.
_cmd_sessions_list(r) ==
    /\ Receive(r)
    /\ r.cmd = "sessions.list"
    /\ rout' = Returned("ok", "", NoChallengeRes)
    /\ rpc' = "ended"
    /\ UNCHANGED <<platform, driver, alive, closed, sessions, page, run, res,
                   nDrivers, nReqs>>

\* _cmd_sessions_destroy, lines 260-270.
_cmd_sessions_destroy(r) ==
    /\ Receive(r)
    /\ r.cmd = "sessions.destroy"
    /\ IF r.session \in SessionIds /\ sessions[r.session] # 0
       THEN /\ StorageDestroy(r.session)
            /\ rout' = Returned("ok", "The session has been removed.", NoChallengeRes)
       ELSE /\ rout' = Raised("The session doesn't exist.")
            /\ UNCHANGED <<alive, sessions>>
    /\ rpc' = "ended"
    /\ UNCHANGED <<platform, driver, closed, page, run, res, nDrivers, nReqs>>

\* _resolve_challenge is entered, lines 273-276: driver = None.
ResolveChallenge(r, method) ==
    /\ run' = [NoRun EXCEPT !.method = method]
    /\ driver' = 0
    /\ rout' = NoOut
    /\ rpc' = "acquire"

\* _cmd_request_get, lines 194-205: the validations, then the resolution.
_cmd_request_get(r) ==
    /\ Receive(r)
    /\ r.cmd = "request.get"
    /\ IF r.url = <<>>
       THEN /\ rout' = Raised("Request parameter 'url' is mandatory in 'request.get' command.")
            /\ rpc' = "ended"
            /\ UNCHANGED <<run, driver>>
       ELSE IF r.postData # ""
       THEN /\ rout' = Raised("Cannot use 'postBody' when sending a GET request.")
            /\ rpc' = "ended"
            /\ UNCHANGED <<run, driver>>
       ELSE ResolveChallenge(r, "GET")
    /\ UNCHANGED <<platform, alive, closed, sessions, page, res, nDrivers, nReqs>>

\* _cmd_request_post, lines 213-222.
_cmd_request_post_Unchecked(r) ==
    /\ Receive(r)
    /\ r.cmd = "request.post"
    /\ ResolveChallenge(r, "POST")
    /\ UNCHANGED <<platform, alive, closed, sessions, page, res, nDrivers, nReqs>>
_cmd_request_post(r) ==
    /\ Receive(r)
    /\ r.cmd = "request.post"
    /\ IF r.postData = ""
       THEN /\ rout' = Raised("Request parameter 'postData' is mandatory in 'request.post' command.")
            /\ rpc' = "ended"
            /\ UNCHANGED <<run, driver>>
       ELSE ResolveChallenge(r, "POST")
    /\ UNCHANGED <<platform, alive, closed, sessions, page, res, nDrivers, nReqs>>

\* What `raise Exception('Error solving the challenge. ' + str(e))` of line 297
\* gives for the exception e, and line 295 for the timeout.
ResolveError(e) == Raised("Error solving the challenge. " \o e)
ResolveTimeout ==
    Raised("Error solving the challenge. Timeout after "
           \o SecondsText(req.maxTimeout) \o " seconds.")

\* SESSIONS_STORAGE.get(session_id, ttl): the session's driver, created when
\* the session is not there yet.
SessionsGet ==
    /\ rpc = "acquire"
    /\ req.session # ""
    /\ IF sessions[req.session] # 0
       THEN /\ driver' = sessions[req.session]
            /\ UNCHANGED <<sessions, alive, nDrivers>>
       ELSE /\ nDrivers' = nDrivers + 1
            /\ driver' = nDrivers + 1
            /\ alive' = alive \cup {nDrivers + 1}
            /\ sessions' = [sessions EXCEPT ![req.session] = nDrivers + 1]
    /\ rpc' = "navigate"
    /\ UNCHANGED <<req, platform, closed, page, run, rout, res, nReqs>>

\* utils.get_webdriver(...), lines 290-292: a fresh driver, or an exception
\* that leaves driver = None.
GetWebdriver ==
    /\ rpc = "acquire"
    /\ req.session = ""
    /\ \/ /\ nDrivers' = nDrivers + 1
          /\ driver' = nDrivers + 1
          /\ alive' = alive \cup {nDrivers + 1}
          /\ rpc' = "navigate"
          /\ UNCHANGED rout
       \/ /\ rout' = ResolveError("webdriver")
          /\ rpc' = "finally"
          /\ UNCHANGED <<driver, alive, nDrivers>>
    /\ UNCHANGED <<req, platform, closed, sessions, page, run, res, nReqs>>

\* A driver call of _evil_logic raises: the exception leaves _evil_logic and
\* line 297 wraps it.
DriverRaises ==
    /\ rout' = ResolveError("driver")
    /\ rpc' = "finally"

\* Where _evil_logic goes after the navigation: to the cookies of lines
\* 552-561 when the request has some, else to line 564.
AfterNavigation == IF req.cookies # NoCookies THEN "cookies" ELSE "inspect"

\* Lines 543-549: the call that loads the page: _post_request for a POST,
\* else driver.get, or _resolve_turnstile_captcha when tabs_till_verify is
\* given.
Navigator_TabsFirst(method, tabs) ==
    IF tabs # NoTabs THEN "_resolve_turnstile_captcha"
    ELSE IF method = "POST" THEN "_post_request"
    ELSE "driver.get"
Navigator(method, tabs) ==
    IF method = "POST" THEN "_post_request"
    ELSE IF tabs = NoTabs THEN "driver.get"
    ELSE "_resolve_turnstile_captcha"

\* _evil_logic, lines 506-549: the navigation (a failure of the CDP commands
\* of lines 530-537 is ignored there).  With tabs_till_verify on a GET it is
\* _resolve_turnstile_captcha that navigates, lines 366-379, and looks for
\* the turnstile input; _get_turnstile_token then reads the baseline value,
\* lines 340-341.
Navigate ==
    /\ rpc = "navigate"
    /\ \/ DriverRaises /\ UNCHANGED <<page, run>>
       \/ \E p \in Pages, base \in TokenValues :
            LET by == Navigator(run.method, req.tabs_till_verify)
            IN  /\ page' = p
                /\ IF by = "_resolve_turnstile_captcha" /\ p.turnstile
                   THEN /\ run' = [run EXCEPT !.navigations = @ + 1, !.navigator = by,
                                              !.turnstile_found = TRUE,
                                              !.baseline = base, !.value_read = base]
                        /\ rpc' = "turnstile"
                   ELSE /\ base = ""
                        /\ run' = [run EXCEPT !.navigations = @ + 1, !.navigator = by]
                        /\ rpc' = AfterNavigation
                /\ UNCHANGED rout
    /\ UNCHANGED <<req, platform, driver, alive, closed, sessions, res,
                   nDrivers, nReqs>>

\* Lines 345-348: the value read is the token when it is not empty (nor
\* None, which "" stands for) and not the value read before the loop.
TokenAccepted_NotEmpty(value, current_value) == value # ""
TokenAccepted(value, current_value) == value # "" /\ value # current_value

\* One pass of the loop of _get_turnstile_token, lines 342-360: click_verify,
\* the value is read again; a value that is not empty and not the baseline
\* is the token, else the focus is reset and the loop goes on.
TurnstilePass ==
    /\ rpc = "turnstile"
    /\ \/ DriverRaises /\ UNCHANGED <<page, run>>
       \/ \E value \in TokenValues, p \in Pages :
            /\ page' = p
            /\ IF TokenAccepted(value, run.baseline)
               THEN /\ run' = [run EXCEPT !.turnstile_verifies = TRUE,
                                          !.value_read = value,
                                          !.turnstile_token = value]
                    /\ rpc' = AfterNavigation
               ELSE /\ run' = [run EXCEPT !.turnstile_verifies = TRUE,
                                          !.value_read = value]
                    /\ rpc' = "turnstile"
            /\ UNCHANGED rout
    /\ UNCHANGED <<req, platform, driver, alive, closed, sessions, res,
                   nDrivers, nReqs>>

\* Lines 552-561: the request's cookies are set and the page is loaded again.
SetCookies ==
    /\ rpc = "cookies"
    /\ \/ DriverRaises /\ UNCHANGED <<page, run>>
       \/ /\ page' \in Pages
          /\ run' = [run EXCEPT !.navigations = @ + 1]
          /\ rpc' = "inspect"
          /\ UNCHANGED rout
    /\ UNCHANGED <<req, platform, driver, alive, closed, sessions, res,
                   nDrivers, nReqs>>

\* Lines 564-595 and 634-636: the access-denied test on the page, then the
\* challenge detection.
DetectChallenge ==
    /\ rpc = "inspect"
    /\ \/ DriverRaises /\ UNCHANGED run
       \/ /\ AccessDenied(page)
          /\ rout' = ResolveError(BlockedMessage)
          /\ rpc' = "finally"
          /\ UNCHANGED run
       \/ /\ ~AccessDenied(page)
          /\ IF ChallengeFound(page)
             THEN /\ run' = [run EXCEPT
                                !.challenge_found = TRUE,
                                !.title_kept = \E title \in CHALLENGE_TITLES :
                                                  Lower(title) = Lower(page.title)]
                  /\ rpc' = "wait"
             ELSE /\ run' = [run EXCEPT !.message = "Challenge not detected!"]
                  /\ rpc' = "result"
          /\ UNCHANGED rout
    /\ UNCHANGED <<req, platform, driver, alive, closed, sessions, page, res,
                   nDrivers, nReqs>>

\* One wait of the wait loop, lines 599-633: the next wait of the pass.  When
\* it times out click_verify runs and the pass starts again, on a page that
\* may be another by then; when it succeeds the next wait follows, and after
\* the last one the loop ends, the wait for the redirect follows (its
\* timeout is ignored) and the message is set.
WaitPass ==
    /\ rpc = "wait"
    /\ \/ DriverRaises /\ UNCHANGED <<page, run>>
       \/ /\ WaitTimesOut(ChallengeWaits[Len(run.pass) + 1], page)
          /\ page' \in Pages
          /\ run' = [run EXCEPT !.waits = TRUE, !.verifies = TRUE, !.pass = <<>>,
                                !.title_kept = @ /\ page'.title = page.title]
          /\ UNCHANGED <<rpc, rout>>
       \/ /\ ~WaitTimesOut(ChallengeWaits[Len(run.pass) + 1], page)
          /\ LET done == Append(run.pass, ChallengeWaits[Len(run.pass) + 1])
             IN  IF Len(done) = Len(ChallengeWaits)
                 THEN /\ run' = [run EXCEPT !.waits = TRUE, !.pass = done,
                                            !.message = "Challenge solved!"]
                      /\ rpc' = "result"
                 ELSE /\ run' = [run EXCEPT !.waits = TRUE, !.pass = done]
                      /\ UNCHANGED rpc
          /\ UNCHANGED <<page, rout>>
    /\ UNCHANGED <<req, platform, driver, alive, closed, sessions, res,
                   nDrivers, nReqs>>

\* Where _evil_logic goes after line 652, and after the body capture.
AfterCapture == IF req.returnScreenshot THEN "screenshot" ELSE "finally"
AfterResult == IF req.returnResponseBody THEN "capture" ELSE AfterCapture

\* _evil_logic goes on to `next`; when that is its end, lines 670-671, it
\* returns res with the result the run has built.
GoOn(next, newrun) ==
    /\ rpc' = next
    /\ rout' = IF next = "finally"
               THEN Returned("ok", newrun.message, newrun.challenge_res)
               ELSE rout

\* Lines 638-643: the attributes every result gets.
ResultStatus == 200
ChallengeRes_NoUserAgent(url, cookies, token) ==
    [NoChallengeRes EXCEPT
        !.has = {"url", "status", "cookies", "turnstile_token"},
        !.url = url, !.status = ResultStatus, !.cookies = cookies,
        !.turnstile_token = token]
ChallengeRes(url, cookies, token) ==
    [NoChallengeRes EXCEPT
        !.has = {"url", "status", "cookies", "userAgent", "turnstile_token"},
        !.url = url, !.status = ResultStatus, !.cookies = cookies,
        !.userAgent = UserAgent, !.turnstile_token = token]

\* Lines 645-652: headers and the page source, unless returnOnlyCookies; the
\* second component tells whether time.sleep(req.waitInSeconds) ran.
WithPage_Always(r, cres, p) ==
    <<[cres EXCEPT !.has = @ \cup {"headers", "response"}, !.response = p],
      r.waitInSeconds > 0>>
WithPage(r, cres, p) ==
    IF ~r.returnOnlyCookies
    THEN <<[cres EXCEPT !.has = @ \cup {"headers", "response"}, !.response = p],
           r.waitInSeconds > 0>>
    ELSE <<cres, FALSE>>

\* Lines 638-652: the result is assembled.
Assemble ==
    /\ rpc = "result"
    /\ \/ DriverRaises /\ UNCHANGED run
       \/ \E read \in DriverReads :
            LET made == WithPage(req, ChallengeRes(read[1], read[2], run.turnstile_token), page)
                newrun == [run EXCEPT !.challenge_res = made[1], !.slept = made[2]]
            IN  /\ run' = newrun
                /\ GoOn(AfterResult, newrun)
    /\ UNCHANGED <<req, platform, driver, alive, closed, sessions, page, res,
                   nDrivers, nReqs>>

\* What the driver gives _extract_response_body: whether get_log works, the
\* log, driver.current_url, and how Network.getResponseBody answers ("raise",
\* "none" for a result without body, "ok").
LogOutcome(available, perf_logs, current_url, get_body, body, base64Encoded) ==
    [available |-> available, perf_logs |-> perf_logs, current_url |-> current_url,
     get_body |-> get_body, body |-> body, base64Encoded |-> base64Encoded]

LogOutcomes ==
    {LogOutcome(FALSE, <<>>, UrlPdfA, "raise", <<>>, FALSE),
     LogOutcome(TRUE, <<EntryOther, EntryGarbled>>, UrlPdfA, "ok", B64Pdf, TRUE),
     LogOutcome(TRUE, <<EntryPdf, EntryPage>>, UrlPageA, "raise", <<>>, FALSE),
     LogOutcome(TRUE, <<EntryPdf, EntryPage>>, UrlPageA, "none", <<>>, FALSE),
     LogOutcome(TRUE, <<EntryPdf, EntryPage>>, UrlPageA, "ok", B64Pdf, TRUE),
     LogOutcome(TRUE, <<EntryPage, EntrySlash>>, UrlPageA, "ok", PageHtml, FALSE)}

\* The candidate whose body is asked for, lines 435-440; request_id "" when
\* there is no candidate.
NoCandidate == [score |-> 0, index |-> -1, request_id |-> "", url |-> <<>>,
                mime_type |-> <<>>, status |-> 0]
SelectCandidate(perf_logs, targets) ==
    LET candidates == Candidates(perf_logs, targets)
    IN  IF candidates = <<>> THEN NoCandidate ELSE Head(SortDesc(candidates))

\* _extract_response_body, lines 403-458.
_extract_response_body(r, o) ==
    IF ~o.available THEN NoBody
    ELSE LET best == SelectCandidate(o.perf_logs, Targets(r.url, o.current_url))
         IN  IF best.request_id = "" THEN NoBody
             ELSE IF o.get_body # "ok" THEN NoBody
             ELSE Body(o.body, o.base64Encoded, best.url, best.mime_type, best.status)

\* Lines 661-665.
WithBody(cres, body) ==
    [cres EXCEPT !.has = @ \cup {"responseBody", "responseBodyBase64", "responseBodyUrl",
                                 "responseBodyMimeType", "responseBodyStatus"},
                 !.responseBody = body]

\* Lines 654-656: the body is looked for in the network log.
ExtractResponseBody ==
    /\ rpc = "capture"
    /\ \E o \in LogOutcomes :
         LET body == _extract_response_body(req, o)
             newrun == [run EXCEPT
                          !.log_read = TRUE,
                          !.log_body = body.found,
                          !.challenge_res = IF body.found THEN WithBody(@, body) ELSE @]
         IN  /\ run' = newrun
             /\ IF body.found
                THEN GoOn(AfterCapture, newrun)
                ELSE rpc' = "fetch" /\ UNCHANGED rout
    /\ UNCHANGED <<req, platform, driver, alive, closed, sessions, page, res,
                   nDrivers, nReqs>>

\* What execute_async_script gives _fetch_body_via_fetch: it raises, or the
\* script's answer (ok, base64, contentType, status); contentType <<>> is null.
FetchOutcome(kind, base64, contentType, status) ==
    [kind |-> kind, base64 |-> base64, contentType |-> contentType, status |-> status]
FetchOutcomes ==
    {FetchOutcome("raise", <<>>, <<>>, 0),
     FetchOutcome("not_ok", <<>>, <<>>, 0),
     FetchOutcome("ok", <<>>, MimePdf, 200),
     FetchOutcome("ok", B64Pdf, <<>>, 200),
     FetchOutcome("ok", B64Html, MimeHtml, 403)}

\* Line 462: the script runs only for a request without postData.
FetchAllowed_Always(r) == TRUE
FetchAllowed(r) == r.postData = ""

\* _fetch_body_via_fetch, lines 461-503.
_fetch_body_via_fetch(r, f) ==
    IF ~FetchAllowed(r) THEN NoBody
    ELSE IF f.kind # "ok" THEN NoBody
    ELSE IF f.base64 = <<>> THEN NoBody
    ELSE Body(f.base64, TRUE, r.url, f.contentType, f.status)

\* Lines 656-665: the fallback, after the network log gave no body.
FetchBodyViaFetch ==
    /\ rpc = "fetch"
    /\ \E f \in FetchOutcomes :
         LET body == _fetch_body_via_fetch(req, f)
             newrun == [run EXCEPT
                          !.fetch_run = FetchAllowed(req),
                          !.challenge_res = IF body.found THEN WithBody(@, body) ELSE @]
         IN  /\ run' = newrun
             /\ GoOn(AfterCapture, newrun)
    /\ UNCHANGED <<req, platform, driver, alive, closed, sessions, page, res,
                   nDrivers, nReqs>>

\* Lines 667-668.
Screenshot ==
    /\ rpc = "screenshot"
    /\ \/ DriverRaises /\ UNCHANGED run
       \/ LET newrun == [run EXCEPT !.challenge_res.has = @ \cup {"screenshot"}]
          IN  /\ run' = newrun
              /\ GoOn("finally", newrun)
    /\ UNCHANGED <<req, platform, driver, alive, closed, sessions, page, res,
                   nDrivers, nReqs>>

\* The part of _resolve_challenge that func_timeout covers, line 293:
\* _evil_logic, from its first line to its return.
InEvilLogic_NotWaiting(pos) ==
    pos \in {"navigate", "turnstile", "cookies", "inspect", "result",
             "capture", "fetch", "screenshot"}
InEvilLogic(pos) ==
    pos \in {"navigate", "turnstile", "cookies", "inspect", "wait", "result",
             "capture", "fetch", "screenshot"}

\* func_timeout(timeout, _evil_logic, ...), lines 293-295: the deadline can
\* pass at any point of _evil_logic.
FunctionTimedOut ==
    /\ InEvilLogic(rpc)
    /\ rout' = ResolveTimeout
    /\ rpc' = "finally"
    /\ UNCHANGED <<req, platform, driver, alive, closed, sessions, page, run, res,
                   nDrivers, nReqs>>

\* The test of the finally clause, line 299.
MustQuit_NotOnError(r, d, out) == r.session = "" /\ d # 0 /\ out.kind = "return"
MustQuit_AnyDriver(r, d, out) == d # 0
MustQuit(r, d, out) == r.session = "" /\ d # 0

\* The finally clause, lines 298-303: a sessionless driver is closed (on
\* Windows) and quit; then _resolve_challenge returns or raises.  The two
\* driver calls are taken to succeed.
Finally ==
    /\ rpc = "finally"
    /\ IF MustQuit(req, driver, rout)
       THEN /\ closed' = IF platform = "nt" THEN closed \cup {driver} ELSE closed
            /\ alive' = alive \ {driver}
       ELSE UNCHANGED <<alive, closed>>
    /\ rpc' = "ended"
    /\ UNCHANGED <<req, platform, driver, sessions, page, run, rout, res,
                   nDrivers, nReqs>>

\* Lines 144-148: the response made of an exception.
ErrorMessage_Bare(message) == message
ErrorMessage(message) == "Error: " \o message

\* controller_v1_endpoint, lines 142-160: the handler's exception becomes an
\* error response, its result is the response; the timestamps and the
\* version are set.
controller_v1_endpoint ==
    /\ rpc = "ended"
    /\ res' = IF rout.kind = "raise"
              THEN [NoRes EXCEPT !.status = "error", !.message = ErrorMessage(rout.message),
                                 !.startTimestamp = TRUE, !.endTimestamp = TRUE,
                                 !.version = TRUE]
              ELSE [NoRes EXCEPT !.status = rout.status, !.message = rout.message,
                                 !.solution = rout.result,
                                 !.startTimestamp = TRUE, !.endTimestamp = TRUE,
                                 !.version = TRUE]
    /\ rpc' = "responded"
    /\ UNCHANGED <<req, platform, driver, alive, closed, sessions, page, run, rout,
                   nDrivers, nReqs>>

\* The caller has the response; the next request can come.
Ended ==
    /\ rpc = "responded"
    /\ rpc' = "idle"
    /\ nReqs' = nReqs + 1
    /\ req' = NoReq
    /\ driver' = 0
    /\ page' = BlankPage
    /\ run' = NoRun
    /\ rout' = NoOut
    /\ res' = NoRes
    /\ UNCHANGED <<platform, alive, closed, sessions, nDrivers>>

----------------------------------------------------------------------------
(* RateLimitedApiRequester, src/src/api/semantic.py: one requester, the     *)
(* coroutines that call its get_data_async on one event loop, and the       *)
(* clock of the loop in ticks.  The request of the base class is the        *)
(* library's: it is awaited, and it returns a response or raises.           *)

MaxTime == 6        \* the clock stops here
MaxApiCalls == 3    \* calls of get_data_async in a run

\* 1.0 / req_rate_limit, line 21, in ticks of the clock.
MinInterval == 2

\* None as a time.
NoTime == -1

Tasks == {"t1", "t2"}

\* How the callers use the requester: each call awaited before the next is
\* made, or calls of several tasks in flight together.
Modes == {"sequential", "concurrent"}

VARIABLE rl     \* the requester, its callers, the clock and the requests made

NoTask == [pc |-> "idle", wake |-> NoTime, req |-> 0]

\* Lines 19-22: the requester after __init__, nothing requested yet.
NewRequester(mode) ==
    [mode |-> mode, clock |-> 0, _last_request_time |-> NoTime,
     task |-> [t \in Tasks |-> NoTask], reqs |-> <<>>, slept |-> <<>>]

LInit == rl = NewRequester("sequential")

\* The request of the base class as it starts: no end yet.
UnderlyingRequest(t, start) == [task |-> t, start |-> start, end |-> NoTime, ok |-> FALSE]

\* Lines 33-36: the test that sends the call to sleep.
MustWait(last, now) == last # NoTime /\ now - last < MinInterval

\* Lines 31-41: the clock is read; the call sleeps the rest of the interval,
\* or awaits the request of the base class at once.
get_data_async(t) ==
    /\ rl.task[t].pc = "idle"
    /\ Len(rl.slept) < MaxApiCalls
    /\ rl.mode = "sequential" => \A u \in Tasks : rl.task[u].pc = "idle"
    /\ LET now == rl.clock
           last == rl._last_request_time
       IN IF MustWait(last, now)
          THEN rl' = [rl EXCEPT
                         !.task[t] = [pc |-> "sleeping",
                                      wake |-> now + (MinInterval - (now - last)),
                                      req |-> 0],
                         !.slept = Append(@, TRUE)]
          ELSE rl' = [rl EXCEPT
                         !.task[t] = [pc |-> "requesting", wake |-> NoTime,
                                      req |-> Len(rl.reqs) + 1],
                         !.reqs = Append(@, UnderlyingRequest(t, now)),
                         !.slept = Append(@, FALSE)]

\* Lines 39-41: asyncio.sleep is over, not before the time asked for, and the
\* request of the base class is awaited.
SleepEnds(t) ==
    /\ rl.task[t].pc = "sleeping"
    /\ rl.clock >= rl.task[t].wake
    /\ rl' = [rl EXCEPT
                  !.task[t] = [pc |-> "requesting", wake |-> NoTime,
                               req |-> Len(rl.reqs) + 1],
                  !.reqs = Append(@, UnderlyingRequest(t, rl.clock))]

\* Lines 41-48: the request returns; the time is kept and the response goes
\* to the caller.
RequestReturns(t) ==
    /\ rl.task[t].pc = "requesting"
    /\ rl' = [rl EXCEPT
                  !.task[t] = NoTask,
                  !.reqs[rl.task[t].req] = [@ EXCEPT !.end = rl.clock, !.ok = TRUE],
                  !._last_request_time = rl.clock]

\* Line 41: the request raises; line 47 is not reached and the exception goes
\* to the caller.
RequestRaises(t) ==
    /\ rl.task[t].pc = "requesting"
    /\ rl' = [rl EXCEPT
                  !.task[t] = NoTask,
                  !.reqs[rl.task[t].req] = [@ EXCEPT !.end = rl.clock]]

\* The clock of the event loop goes on.
Tick ==
    /\ rl.clock < MaxTime
    /\ rl' = [rl EXCEPT !.clock = @ + 1]

----------------------------------------------------------------------------
(* The candidate selection on its own: a network log, a request URL and a   *)
(* current URL are given, the candidates are scored, one is selected.       *)

MaxLogLen == 2

VARIABLE sc     \* the selection: its inputs, its candidates, its choice

vars == <<dvars, rvars, sc, rl>>

Logs == UNION {[1..n -> LogEntries] : n \in 0..MaxLogLen}

NoSelection ==
    [pc |-> "off", perf_logs |-> <<>>, url |-> <<>>, current_url |-> <<>>,
     candidates |-> <<>>, picked |-> NoCandidate]

SInit == sc = NoSelection

\* The inputs of _extract_response_body once get_log has answered.
SelectionInputs ==
    /\ sc \in [pc : {"log"}, perf_logs : Logs, url : {UrlPdfA, UrlPageA},
               current_url : {<<>>, UrlPdfA, UrlPageB},
               candidates : {<<>>}, picked : {NoCandidate}]

\* Lines 410-433: the candidates are collected.
ScoreCandidates ==
    /\ sc.pc = "log"
    /\ sc' = [sc EXCEPT !.pc = "scored",
                        !.candidates = Candidates(sc.perf_logs,
                                                  Targets(sc.url, sc.current_url))]

\* Lines 435-440: no candidate, or the first after the sort.
PickCandidate ==
    /\ sc.pc = "scored"
    /\ sc' = [sc EXCEPT !.pc = "picked",
                        !.picked = SelectCandidate(sc.perf_logs,
                                                   Targets(sc.url, sc.current_url))]
----------------------------------------------------------------------------
(* The specifications: a run of download calls, a run of resolver           *)
(* requests, the same with the fairness of the server, and the candidate    *)
(* selection.  Each leaves the variables of the others as they start.       *)

\* A run of download calls: the resolver process is not part of it.
DStart == DInit /\ RInit /\ SInit /\ LInit /\ platform = "posix"

\* A run of resolver requests: no download call is part of it.
RStart == RInit /\ DInit /\ SInit /\ LInit /\ fs = EmptyFs

\* A candidate selection.
SStart == SelectionInputs /\ DInit /\ RInit /\ LInit /\ fs = EmptyFs /\ platform = "posix"

\* A requester and its callers.
LStart ==
    /\ \E mode \in Modes : rl = NewRequester(mode)
    /\ DInit /\ RInit /\ SInit /\ fs = EmptyFs /\ platform = "posix"

DNext ==
    \/ (\E url \in RequestUrls, dest \in Dests : Download(url, dest)) /\ UNCHANGED <<rvars, sc, rl>>
    \/ (\E answer \in ResolverAnswers : FetchSolution(answer)) /\ UNCHANGED <<rvars, sc, rl>>
    \/ ResponseBody /\ UNCHANGED <<rvars, sc, rl>>
    \/ HtmlResponse /\ UNCHANGED <<rvars, sc, rl>>
    \/ ExtractPdfUrl /\ UNCHANGED <<rvars, sc, rl>>
    \/ WriteOpen /\ UNCHANGED <<rvars, sc, rl>>
    \/ WriteData /\ UNCHANGED <<rvars, sc, rl>>
    \/ WriteReplace /\ UNCHANGED <<rvars, sc, rl>>
    \/ WriteMarkdown /\ UNCHANGED <<rvars, sc, rl>>
    \/ (\E server \in ServerOutcomes : ReplayGet(server)) /\ UNCHANGED <<rvars, sc, rl>>
    \/ FirstChunk /\ UNCHANGED <<rvars, sc, rl>>
    \/ StreamOpen /\ UNCHANGED <<rvars, sc, rl>>
    \/ StreamChunk /\ UNCHANGED <<rvars, sc, rl>>
    \/ StreamReplace /\ UNCHANGED <<rvars, sc, rl>>
    \/ Return /\ UNCHANGED <<rvars, sc, rl>>

\* A request comes in and the handler checks and dispatches it.
Arrival ==
    \/ (\E r \in Requests : _controller_v1_handler(r)) /\ UNCHANGED <<dvars, sc, rl>>
    \/ (\E r \in Requests : _cmd_sessions_create(r)) /\ UNCHANGED <<dvars, sc, rl>>
    \/ (\E r \in Requests : _cmd_sessions_list(r)) /\ UNCHANGED <<dvars, sc, rl>>
    \/ (\E r \in Requests : _cmd_sessions_destroy(r)) /\ UNCHANGED <<dvars, sc, rl>>
    \/ (\E r \in Requests : _cmd_request_get(r)) /\ UNCHANGED <<dvars, sc, rl>>
    \/ (\E r \in Requests : _cmd_request_post(r)) /\ UNCHANGED <<dvars, sc, rl>>

\* The deadline of func_timeout passes.
Deadline == FunctionTimedOut /\ UNCHANGED <<dvars, sc, rl>>

\* The steps of the thread that handles the request.
Handling ==
    \/ SessionsGet /\ UNCHANGED <<dvars, sc, rl>>
    \/ GetWebdriver /\ UNCHANGED <<dvars, sc, rl>>
    \/ Navigate /\ UNCHANGED <<dvars, sc, rl>>
    \/ TurnstilePass /\ UNCHANGED <<dvars, sc, rl>>
    \/ SetCookies /\ UNCHANGED <<dvars, sc, rl>>
    \/ DetectChallenge /\ UNCHANGED <<dvars, sc, rl>>
    \/ WaitPass /\ UNCHANGED <<dvars, sc, rl>>
    \/ Assemble /\ UNCHANGED <<dvars, sc, rl>>
    \/ ExtractResponseBody /\ UNCHANGED <<dvars, sc, rl>>
    \/ FetchBodyViaFetch /\ UNCHANGED <<dvars, sc, rl>>
    \/ Screenshot /\ UNCHANGED <<dvars, sc, rl>>
    \/ Finally /\ UNCHANGED <<dvars, sc, rl>>
    \/ controller_v1_endpoint /\ UNCHANGED <<dvars, sc, rl>>
    \/ Ended /\ UNCHANGED <<dvars, sc, rl>>

RNext == Arrival \/ Deadline \/ Handling

SNext ==
    \/ ScoreCandidates /\ UNCHANGED <<dvars, rvars, rl>>
    \/ PickCandidate /\ UNCHANGED <<dvars, rvars, rl>>

Spec == DStart /\ [][DNext]_vars

ResolverSpec == RStart /\ [][RNext]_vars

\* The steps of _resolve_challenge outside _evil_logic: the driver is taken,
\* lines 277-292, and the finally clause runs, lines 298-303.
Acquire == (SessionsGet \/ GetWebdriver) /\ UNCHANGED <<dvars, sc, rl>>
Release == Finally /\ UNCHANGED <<dvars, sc, rl>>

\* The thread that serves the request does take the driver and does run the
\* finally clause, and the deadline of func_timeout does pass while
\* _evil_logic runs, whatever _evil_logic does.
ResolverLiveSpec ==
    RStart /\ [][RNext]_vars /\ WF_vars(Acquire) /\ WF_vars(Deadline) /\ WF_vars(Release)

ScoreSpec == SStart /\ [][SNext]_vars

LNext ==
    \/ (\E t \in Tasks : get_data_async(t)) /\ UNCHANGED <<dvars, rvars, sc>>
    \/ (\E t \in Tasks : SleepEnds(t)) /\ UNCHANGED <<dvars, rvars, sc>>
    \/ (\E t \in Tasks : RequestReturns(t)) /\ UNCHANGED <<dvars, rvars, sc>>
    \/ (\E t \in Tasks : RequestRaises(t)) /\ UNCHANGED <<dvars, rvars, sc>>
    \/ Tick /\ UNCHANGED <<dvars, rvars, sc>>

RateSpec == LStart /\ [][LNext]_vars

----------------------------------------------------------------------------
(* Properties of download (checked under Spec).                             *)

RECURSIVE Concat(_)
\* The chunks of a response, one after the other.
Concat(chunks) == IF chunks = <<>> THEN <<>> ELSE Head(chunks) \o Concat(Tail(chunks))

ResolverCalls == {i \in 1..Len(events) : events[i].kind = "resolver"}
HttpCalls == {i \in 1..Len(events) : events[i].kind = "http"}

\* dest, or dest with its suffix replaced by .html, .json or .md, was there
\* when the call started.
ArtifactExisted ==
    \E suf \in {".pdf", ".html", ".json", ".md"} : fs0[with_suffix(call.dest, suf)].exists

\* C1: whenever dest or one of its .html/.json/.md siblings exists when
\* download is called, the call returns success=true with code "exists", and
\* has made no resolver call, no HTTP call and no change to any file.
C1_ExistsShortCircuit ==
    (pc # "idle" /\ ArtifactExisted)
        => /\ pc = "done"
           /\ result.success
           /\ result.code = "exists"
           /\ events = <<>>
           /\ fs = fs0

\* C1 witness: a call returned "exists" when only the .md sibling was there.
C1_Witness ==
    /\ pc = "done"
    /\ result.code = "exists"
    /\ fs0[md_dest(call.dest)].exists
    /\ ~fs0[call.dest].exists
    /\ ~fs0[html_dest(call.dest)].exists
    /\ ~fs0[json_dest(call.dest)].exists

\* C2 (as claimed): when the resolver returned a captured body that is not a
\* PDF for a target URL containing ".pdf", download returns code "not_pdf"
\* and stops: no file written, no further resolver call, no HTTP GET.
\* (Stated for the runs in which no file operation fails.)
C2_NotPdfIsTerminal ==
    (pc = "done" /\ bodyCodes # <<>> /\ bodyCodes[1] = "not_pdf"
                /\ result.code # "write_error")
        => /\ ~result.success
           /\ result.code = "not_pdf"
           /\ fs = fs0
           /\ Len(events) = 1

\* C3 (as claimed): once a resolver attempt for a domain has failed, no later
\* step invokes the resolver for a URL of that domain.
C3_NoSecondEscalation ==
    [][ (pc = "fetch" /\ get_domain(cur.url) \in failedDomains)
            => ResolverCalls' = ResolverCalls ]_vars

\* C4 (as claimed): every resolver invocation for a URL comes after a plain
\* HTTP attempt for that URL that failed with a bot-like status.
C4_ResolverOnlyAfterBotSignal ==
    \A i \in ResolverCalls :
        /\ \E j \in HttpCalls : j < i /\ events[j].url = events[i].url
        /\ call.server.status \in {403, 429, 503}

\* C5 (as claimed): when the GET of the URL answers 200 with content-type
\* application/pdf, download returns success, code "ok", via "direct", has not
\* invoked the resolver, and dest holds exactly the response bytes.
\* (Stated for the runs in which no file operation fails.)
C5_DirectPdfDownload ==
    (/\ pc = "done"
     /\ result.code # "write_error"
     /\ \E j \in HttpCalls : events[j].url = call.url
     /\ ~call.server.error
     /\ call.server.status = 200
     /\ call.server.contentType = MimePdf
     /\ call.server.failAt = 0)
        => /\ result.success
           /\ result.code = "ok"
           /\ result.via = "direct"
           /\ ResolverCalls = {}
           /\ fs[call.dest] = File(Concat(call.server.chunks))

\* C6 (as claimed): when the resolver succeeded with cookies, a user agent
\* and the page HTML but no captured body, the target server answers a
\* replayed GET with PDF bytes, and no file operation fails, download returns
\* success, code "ok", via "api", and dest holds the PDF.
C6_ReplayAfterChallenge ==
    (/\ pc = "done"
     /\ cur.stage = 1
     /\ ResolverCalls # {}
     /\ result.code \notin {"api_error", "write_error"}
     /\ cur.solution.responseBody = <<>>
     /\ cur.solution.response = PageHtml
     /\ cur.solution.cookies = GoodCookies
     /\ cur.solution.userAgent # ""
     /\ HttpCalls # {} => call.server = Served(FALSE, 200, MimePdf, <<PdfChunk, <<1, 2>>>>, 0))
        => /\ result.success
           /\ result.code = "ok"
           /\ result.via = "api"
           /\ fs[call.dest] = File(Concat(<<PdfChunk, <<1, 2>>>>))

\* C7 (as claimed): download never raises; every call ends with a result.
C7_NeverRaises == pc # "raised"

\* C8: every result download returns has success = true exactly when its
\* code is one of exists, ok, html, json.
C8_SuccessIffCode ==
    pc = "done" => (result.success <=> result.code \in {"exists", "ok", "html", "json"})

\* C8 witness: a replayed GET answered with an HTTP error status, and the
\* call returned the failure.
C8_Witness == pc = "done" /\ result.code = "http_error" /\ ~result.success

\* C9: whenever download has returned, no ".part" staging file is left.
C9_NoPartLeft == pc = "done" => \A p \in PartPaths : ~fs[p].exists

\* C9 witness: a write failed in the middle of streaming, after bytes had
\* gone to the staging file, and the call returned write_error.
C9_Witness ==
    /\ pc = "done"
    /\ result.code = "write_error"
    /\ stream.bytes_written > 0

\* The bytes, with leading whitespace removed, start with %PDF-: after k
\* whitespace bytes come 37 80 68 70 45.
C21_IsPdf(b) ==
    \E k \in 0..Len(b) :
        /\ \A i \in 1..k : b[i] \in {9, 10, 11, 12, 13, 32}
        /\ k + 5 <= Len(b)
        /\ b[k + 1] = 37 /\ b[k + 2] = 80 /\ b[k + 3] = 68 /\ b[k + 4] = 70
        /\ b[k + 5] = 45

\* The decoded captured body of the solution at hand.
C21_Payload == DecodeBody(cur.solution).payload

\* C21: the captured-body step writes with code "ok" exactly when the decoded
\* body, after its leading whitespace, starts with %PDF- (not for an empty
\* body, not for the truncated %PDF); a file written with code "ok" from a
\* captured body holds such bytes; and a replayed response whose content-type
\* does not say pdf is refused as not_pdf exactly when its first chunk does
\* not start so.
C21_SniffDecidesOk ==
    /\ (cur.stage >= 1 /\ Len(bodyCodes) = cur.stage
                       /\ bodyCodes[cur.stage] \notin {"none", "decode_error"})
          => ((bodyCodes[cur.stage] = "write" /\ wr.code = "ok") <=> C21_IsPdf(C21_Payload))
    /\ (pc = "done" /\ result.code = "ok" /\ HttpCalls = {})
          => /\ C21_IsPdf(fs[call.dest].data)
             /\ fs[call.dest].data = C21_Payload
    /\ (/\ pc \in {"s_open", "s_write", "done"}
        /\ HttpCalls # {}
        /\ ~call.server.error
        /\ call.server.failAt # 1
        /\ call.server.status < 400
        /\ ~Contains(Lower(call.server.contentType), <<"p","d","f">>))
          => ((pc = "done" /\ result.code = "not_pdf")
                <=> ~C21_IsPdf(FirstChunkOf(call.server)))

\* C21 witness: a captured body that starts with a space before %PDF- was
\* written to dest with code "ok".
C21_Witness ==
    /\ pc = "done"
    /\ result.code = "ok"
    /\ HttpCalls = {}
    /\ fs[call.dest].data = <<32, 37, 80, 68, 70, 45>>

\* The codes and the origins a result can have.
C22_Codes ==
    {"exists", "ok", "html", "json", "request_error", "http_error",
     "cloudflare_challenge", "not_pdf", "not_html", "write_error", "api_error",
     "api_parse_error", "api_no_solution", "api_http_error", "api_not_pdf",
     "decode_error"}
C22_Vias == {"direct", "cached", "api"}

\* C22: every result download returns has its code among the sixteen codes
\* and its via among direct, cached, api.
C22_KnownCodeAndVia ==
    pc = "done" => (result.code \in C22_Codes /\ result.via \in C22_Vias)

\* C22 witness: a captured body that could not be decoded gave the result
\* decode_error via api.
C22_Witness ==
    /\ pc = "done"
    /\ result.code = "decode_error"
    /\ result.via = "api"
    /\ bodyCodes = <<"decode_error">>

\* The value of the href attribute that starts at position i of the HTML:
\* what stands between the quote after href= and the next quote of the same
\* kind; empty when no href attribute starts there.
C30_HrefAt(html, i) ==
    LET q == i + 5
        closing == {j \in (q + 1)..Len(html) : html[j] = html[q]}
    IN  IF /\ StartsWithAt(Lower(html), <<"h","r","e","f","=">>, i)
           /\ q <= Len(html)
           /\ html[q] \in {"\"", "'"}
           /\ closing # {}
        THEN SubSeq(html, q + 1, Min(closing) - 1)
        ELSE <<>>

\* The value ends in ".pdf", a query string possibly following.
C30_EndsInPdf(v) ==
    LET q == IndexOf("?", v)
        path == IF q = 0 THEN v ELSE SubSeq(v, 1, q - 1)
    IN  /\ Len(path) >= 4
        /\ Lower(SubSeq(path, Len(path) - 3, Len(path))) = <<".","p","d","f">>

\* The value contains "/pdf/".
C30_HasPdfDir(v) == Contains(Lower(v), <<"/","p","d","f","/">>)

\* The link the claim describes: the first href that ends in ".pdf", else
\* the first that contains "/pdf/", else none.
C30_ClaimedLink(html) ==
    LET dot == {i \in 1..Len(html) : C30_EndsInPdf(C30_HrefAt(html, i))}
        dir == {i \in 1..Len(html) : C30_HasPdfDir(C30_HrefAt(html, i))}
    IN  IF dot # {} THEN C30_HrefAt(html, Min(dot))
        ELSE IF dir # {} THEN C30_HrefAt(html, Min(dir))
        ELSE <<>>

\* What the claim says _extract_pdf_url returns; empty is None.
C30_ClaimedUrl(url, solution) ==
    IF C30_ClaimedLink(solution.response) = <<>> THEN <<>>
    ELSE urljoin(OrElse(solution.url, url), C30_ClaimedLink(solution.response))

\* C29 (as claimed): when the captured-body step wrote nothing and the page
\* HTML of the solution holds a link to a PDF, download goes on to resolve
\* that link: the page is not stored as the .html artifact and the first
\* solution is not replayed.
C29_LinkIsResolved ==
    (/\ cur.stage = 1
     /\ Len(bodyCodes) = 1
     /\ bodyCodes[1] \in {"none", "not_pdf", "not_html"}
     /\ C30_ClaimedLink(cur.solution.response) # <<>>)
        => pc \in {"html", "extract"}

\* C30 (as claimed): the step that looks for a PDF link finds the link the
\* claim describes, resolved against the solution URL or else the request
\* URL, and goes on with it; without such a link it finds none.
C30_ExtractsClaimedLink ==
    [][ pc = "extract"
          => IF C30_ClaimedUrl(call.url, cur.solution) # <<>>
             THEN /\ pc' = "fetch"
                  /\ cur'.stage = 2
                  /\ cur'.url = C30_ClaimedUrl(call.url, cur.solution)
             ELSE /\ pc' = "replay"
                  /\ cur' = cur ]_vars

\* The URL the captured-body step looks at for ".pdf", lower-cased.
C31_Target ==
    Lower(OrElse(cur.solution.responseBodyUrl, OrElse(cur.solution.url, cur.url)))

\* The captured-body step has run at this stage on a body that decodes, is
\* not a PDF, has no ".pdf" in its target URL, and has the word in its MIME
\* type.
C31_Case(word) ==
    /\ cur.stage >= 1
    /\ Len(bodyCodes) = cur.stage
    /\ cur.solution.responseBody # <<>>
    /\ Contains(Lower(cur.solution.responseBodyMimeType), word)
    /\ ~Contains(C31_Target, <<".","p","d","f">>)
    /\ DecodeBody(cur.solution).ok
    /\ ~C21_IsPdf(C21_Payload)

\* The body goes to dest with the suffix, through _write_payload; dest itself
\* is not created; once the write is over the file holds the body and the
\* result is success with the code, whatever the converter did afterwards.
\* Only a failing file operation gives another result, write_error.
C31_StoredAs(suf, code) ==
    /\ pc \in {"w_open", "w_data", "w_replace", "markdown", "done"}
    /\ wr.path = with_suffix(call.dest, suf)
    /\ wr.payload = C21_Payload
    /\ ~fs[call.dest].exists
    /\ pc = "done" => result.code \in {code, "write_error"}
    /\ (pc \in {"markdown", "done"} /\ result.code # "write_error")
          => /\ result.success
             /\ result.code = code
             /\ fs[with_suffix(call.dest, suf)] = File(wr.payload)

\* C31: a captured body that is not a PDF, with no ".pdf" in the target URL,
\* is written to dest with suffix .html when its MIME type contains "html",
\* to dest with suffix .json when it contains "json" (and not "html"); the
\* result is success with code "html", respectively "json"; dest itself is
\* not created; and the converter, missing, failing or writing the .md
\* file, does not change the result.
C31_HtmlJsonStored ==
    /\ C31_Case(<<"h","t","m","l">>) => C31_StoredAs(".html", "html")
    /\ (/\ ~Contains(Lower(cur.solution.responseBodyMimeType), <<"h","t","m","l">>)
        /\ C31_Case(<<"j","s","o","n">>))
          => (C31_StoredAs(".json", "json") /\ pc # "markdown")

\* C31 witness: an HTML body was stored as the .html artifact and the call
\* returned code "html" with no .md file written (the converter is missing).
C31_Witness ==
    /\ pc = "done"
    /\ C31_Case(<<"h","t","m","l">>)
    /\ result.code = "html"
    /\ fs[with_suffix(call.dest, ".html")].exists
    /\ ~fs[with_suffix(call.dest, ".md")].exists

\* The replayed GET did not give a response to look at: the request raised,
\* or the connection broke before the first chunk of the body was read.
C32_RequestFailed == call.server.error \/ call.server.failAt = 1

\* The response sniffs as PDF: its content-type contains "pdf", or its first
\* chunk, after leading whitespace, starts with %PDF-.
C32_Sniffs ==
    \/ Contains(Lower(call.server.contentType), <<"p","d","f">>)
    \/ C21_IsPdf(FirstChunkOf(call.server))

\* C32: a call that replayed the GET has created the file at dest exactly
\* when the request did not fail, the status is below 400, the response
\* sniffs as PDF and no write failed, and then returns success with code
\* "ok"; a status of 400 or above gives code "http_error", a response that
\* does not sniff as PDF gives code "not_pdf", both without any change to
\* the files; and dest is not there before the call has ended.
C32_ReplayCreatesDest ==
    HttpCalls # {}
        => /\ pc \notin {"done", "raised"} => ~fs[call.dest].exists
           /\ pc \in {"done", "raised"}
                => /\ fs[call.dest].exists
                        <=> /\ ~C32_RequestFailed
                            /\ call.server.status < 400
                            /\ C32_Sniffs
                            /\ pc = "done"
                            /\ result.code # "write_error"
                   /\ fs[call.dest].exists => (result.success /\ result.code = "ok")
                   /\ (~C32_RequestFailed /\ call.server.status >= 400)
                        => /\ pc = "done"
                           /\ ~result.success
                           /\ result.code = "http_error"
                           /\ fs = fs0
                   /\ (~C32_RequestFailed /\ call.server.status < 400 /\ ~C32_Sniffs)
                        => /\ pc = "done"
                           /\ ~result.success
                           /\ result.code = "not_pdf"
                           /\ fs = fs0

\* C32 witness: a response without content-type whose first chunk starts
\* with whitespace and %PDF- was streamed to dest.
C32_Witness ==
    /\ pc = "done"
    /\ HttpCalls # {}
    /\ call.server.contentType = <<>>
    /\ call.server.status = 200
    /\ result.code = "ok"
    /\ fs[call.dest].exists

\* The artifact of a successful result: dest for code "ok", dest with the
\* suffix .html or .json for the codes "html" and "json".
C33_Artifact ==
    IF result.code = "html" THEN with_suffix(call.dest, ".html")
    ELSE IF result.code = "json" THEN with_suffix(call.dest, ".json")
    ELSE call.dest

\* The payload of the call: the chunks of the replayed response one after the
\* other, the decoded captured body when the captured-body step wrote, the
\* encoded page HTML otherwise.
C33_Payload ==
    IF HttpCalls # {} THEN Concat(call.server.chunks)
    ELSE IF bodyCodes[Len(bodyCodes)] = "write" THEN C21_Payload
    ELSE Utf8Encode(cur.solution.response)

\* C33: whenever download has returned success with code ok, html or json,
\* the artifact holds exactly the payload and bytes_written is the length of
\* the artifact.
C33_ArtifactIsPayload ==
    (pc = "done" /\ result.success /\ result.code \in {"ok", "html", "json"})
        => /\ fs[C33_Artifact] = File(C33_Payload)
           /\ result.bytes_written = Len(fs[C33_Artifact].data)

\* C33 witness: a response in three chunks, the second one empty, was
\* streamed to dest.
C33_Witness ==
    /\ pc = "done"
    /\ result.code = "ok"
    /\ HttpCalls # {}
    /\ Len(call.server.chunks) = 3
    /\ call.server.chunks[2] = <<>>
    /\ result.bytes_written = Len(call.server.chunks[1]) + Len(call.server.chunks[3])

\* The final artifact paths, and the staging file of each.
C34_FinalPaths == {p \in Paths : p.suffix \in {".pdf", ".html", ".json"}}
C34_Staging(p) == [p EXCEPT !.suffix = p.suffix \o ".part"]

\* C34: a final artifact path that is not as it was when the call started
\* holds the complete payload of the call; and a final path changes only by
\* the rename of its staging file, which holds the complete payload at that
\* moment and is gone afterwards.
C34_FinalPathsComplete ==
    /\ [](\A p \in C34_FinalPaths :
             fs[p].exists => (fs[p] = fs0[p] \/ fs[p] = File(C33_Payload)))
    /\ [][ \A p \in C34_FinalPaths :
              fs'[p] # fs[p]
                 => /\ fs[C34_Staging(p)] = File(C33_Payload)
                    /\ fs'[p] = fs[C34_Staging(p)]
                    /\ ~fs'[C34_Staging(p)].exists ]_vars

\* C34 witness: in the middle of streaming the staging file holds a part of
\* the response and dest is not there.
C34_Witness ==
    /\ pc = "s_write"
    /\ fs[C34_Staging(call.dest)].exists
    /\ Len(fs[C34_Staging(call.dest)].data) > 0
    /\ fs[C34_Staging(call.dest)].data # Concat(call.server.chunks)
    /\ ~fs[call.dest].exists

\* C35: after a call for a dest has returned ok, html or json, the artifact
\* it left stays as it was, and every later call for that dest, whatever its
\* URL, returns success with code "exists" at once: no resolver call, no
\* HTTP call, no change to any file.
C35_Idempotent ==
    /\ \A s \in stored : fs[s.path] = s.file /\ s.file.exists
    /\ (pc # "idle" /\ \E s \in stored : s.dest = call.dest)
          => /\ pc = "done"
             /\ result.success
             /\ result.code = "exists"
             /\ events = <<>>
             /\ fs = fs0

\* C35 witness: a call stored the page as the .html artifact, and a later
\* call for the same dest with a URL that names a PDF returned "exists".
C35_Witness ==
    /\ pc = "done"
    /\ result.code = "exists"
    /\ call.url = UrlPdfA
    /\ \E s \in stored : s.dest = call.dest /\ s.path.suffix = ".html"

\* C36: a call that returned success = false has left no file at dest, at
\* dest with the suffix .html, .json or .md, nor at any staging path of
\* these; the files are as they were when the call started, so nothing of
\* this call makes a later call return "exists".
C36_FailureLeavesNothing ==
    (pc = "done" /\ ~result.success)
        => /\ \A suf \in Suffixes : ~fs[with_suffix(call.dest, suf)].exists
           /\ fs = fs0

\* C36 witness: a file operation failed while the .html artifact was
\* written, and the call returned write_error.
C36_Witness ==
    /\ pc = "done"
    /\ ~result.success
    /\ result.code = "write_error"
    /\ wr.path = with_suffix(call.dest, ".html")
    /\ wr.payload # <<>>

\* A number that every step of a call makes smaller: the steps left on the
\* longest way from where the call is, 20 more while the PDF link can still
\* start the second stage.
C37_StepsLeft ==
    (IF cur.stage = 1 THEN 20 ELSE 0)
    + (CASE pc = "fetch" -> 11
         [] pc = "body" -> 10
         [] pc = "html" -> 9
         [] pc = "extract" -> 8
         [] pc = "replay" -> 7
         [] pc = "first_chunk" -> 6
         [] pc = "s_open" -> 5
         [] pc = "s_write" -> 1 + (Len(call.server.chunks) + 1 - stream.idx)
         [] pc = "w_open" -> 4
         [] pc = "w_data" -> 3
         [] pc = "w_replace" -> 2
         [] pc = "markdown" -> 1
         [] OTHER -> 0)

\* C37: a call invokes the resolver at most twice, first for the URL of the
\* call and then, at most once, for the PDF link found at the first stage;
\* it replays at most one GET, after the last resolver invocation; the search
\* for a PDF link runs only at the first stage; and every step of a call
\* brings it nearer to its end, so the call terminates.
C37_BoundedEscalation ==
    /\ [](/\ Cardinality(ResolverCalls) <= 2
          /\ Cardinality(HttpCalls) <= 1
          /\ Cardinality(ResolverCalls) <= cur.stage
          /\ \A i \in HttpCalls : i = Len(events)
          /\ (Len(events) >= 1 /\ events[1].kind = "resolver") => events[1].url = call.url
          /\ pc = "extract" => (cur.stage = 1 /\ Cardinality(ResolverCalls) = 1)
          /\ C37_StepsLeft >= 0)
    /\ [][ pc \notin {"idle", "done", "raised"} => C37_StepsLeft' < C37_StepsLeft ]_vars

\* C37 witness: the first page had a PDF link, the resolver was invoked for
\* it, its answer was again a page with a PDF link and no body, and the call
\* ended after one replayed GET.
C37_Witness ==
    /\ pc = "done"
    /\ cur.stage = 2
    /\ Cardinality(ResolverCalls) = 2
    /\ Cardinality(HttpCalls) = 1
    /\ cur.solution.response = LinkHtml

----------------------------------------------------------------------------
(* Properties of the resolver (checked under ResolverSpec).                 *)

SessionDrivers == {sessions[id] : id \in SessionIds}

C11_SessionDriverKept ==
    (/\ req.session # ""
     /\ run.method # ""
     /\ (InEvilLogic(rpc) \/ rpc \in {"finally", "ended", "responded"})
     /\ driver # 0)
        => /\ driver \in alive
           /\ driver \notin closed
           /\ sessions[req.session] = driver

\* C11 witness: a request with a session id ran into the outer timeout, and
\* _resolve_challenge has raised with the session's driver alive.
C11_Witness ==
    /\ rpc = "ended"
    /\ req.session # ""
    /\ rout = ResolveTimeout
    /\ driver # 0
    /\ sessions[req.session] = driver
    /\ driver \in alive

C13_Denied ==
    \/ StartsWith(page.title, TitleDenied)
    \/ StartsWith(page.title, TitleAttention)
    \/ page.denied_selector

\* C13: when the page after the navigation is a denied one, the step that
\* inspects it fails the resolution (with the error "Cloudflare has blocked
\* this request ..." unless the timeout or a driver call failed it first);
\* and a resolution that failed with that error has detected no challenge,
\* made no challenge wait and no verify keystroke or click of the challenge
\* handling, and produced no Solution.
C13_BlockedBeforeDetection ==
    /\ [][ (rpc = "inspect" /\ C13_Denied)
             => /\ rpc' = "finally"
                /\ rout' \in {ResolveError(BlockedMessage), ResolveTimeout,
                              ResolveError("driver")} ]_vars
    /\ [](rout = ResolveError(BlockedMessage)
             => /\ ~run.challenge_found
                /\ ~run.waits
                /\ ~run.verifies
                /\ run.challenge_res = NoChallengeRes
                /\ rout.result = NoChallengeRes
                /\ (rpc = "responded" =>
                        res.status = "error" /\ res.solution = NoChallengeRes))

\* C13 witness: a page with a denied title that also matches a challenge
\* selector was answered with the blocked error.
C13_Witness ==
    /\ rpc = "responded"
    /\ res.message = "Error: Error solving the challenge. " \o BlockedMessage
    /\ page.title = TitleDeniedMore
    /\ page.challenge_selector

\* The page is one the claim calls a challenge: its title equals a challenge
\* title whatever the case of the letters, or a challenge selector matches.
C14_Challenge ==
    \/ Lower(page.title) = Lower(TitleMoment)
    \/ Lower(page.title) = Lower(TitleDdosGuard)
    \/ page.challenge_selector

\* C14: the wait loop is entered exactly for a page that is a challenge; a
\* resolution that returns without a challenge detected has status ok, the
\* message "Challenge not detected!", no challenge wait and no verify
\* keystroke or click of the challenge handling behind it; and the message
\* of a returned resolution is "Challenge solved!" exactly when a challenge
\* was detected (and the wait loop has then ended).
C14_NotDetected ==
    /\ (rpc = "result" /\ ~run.challenge_found) => ~C14_Challenge
    /\ (rpc = "wait" /\ ~run.waits) => C14_Challenge
    /\ (rpc = "wait") => run.challenge_found
    /\ (rout.kind = "return" /\ run.method # "" /\ ~run.challenge_found)
          => /\ rout.status = "ok"
             /\ rout.message = "Challenge not detected!"
             /\ ~run.waits
             /\ ~run.verifies
    /\ (rout.kind = "return" /\ run.method # "")
          => /\ (rout.message = "Challenge solved!") <=> run.challenge_found
             /\ run.challenge_found => run.waits

\* C14 witness: a page titled "Just a moment... x", which is no challenge
\* title, was resolved as "Challenge not detected!".
C14_Witness ==
    /\ rpc = "ended"
    /\ rout.kind = "return"
    /\ rout.message = "Challenge not detected!"
    /\ page.title = TitleMomentMore

\* C15: controller_v1_endpoint answers every request: what the handler raised
\* becomes a response with status "error" and the message "Error: " followed
\* by the exception's message, what it returned becomes the response, and
\* startTimestamp, endTimestamp and version are set on both.
C15_ErrorsBecomeResponses ==
    /\ [][ rpc = "ended" => rpc' = "responded" ]_vars
    /\ [](rpc = "responded"
            => /\ res.startTimestamp
               /\ res.endTimestamp
               /\ res.version
               /\ rout.kind \in {"return", "raise"}
               /\ rout.kind = "raise"
                    => /\ res.status = "error"
                       /\ res.message = "Error: " \o rout.message
                       /\ res.solution = NoChallengeRes
               /\ rout.kind = "return"
                    => /\ res.status = "ok"
                       /\ res.message = rout.message
                       /\ res.solution = rout.result)

\* C15 witness: a request.get with postData was answered with the validation
\* error.
C15_Witness ==
    /\ rpc = "responded"
    /\ req.cmd = "request.get"
    /\ req.postData # ""
    /\ res.status = "error"
    /\ res.message = "Error: Cannot use 'postBody' when sending a GET request."
    /\ res.version

\* C16: every result a resolution returns has status 200 and carries the
\* current URL, the cookies and the user agent.
C16_SolutionBasics ==
    (rout.kind = "return" /\ run.method # "")
        => /\ rout.result.status = 200
           /\ {"url", "status", "cookies", "userAgent"} \subseteq rout.result.has
           /\ rout.result.url # <<>>
           /\ rout.result.userAgent = UserAgent
           /\ (rpc = "responded" => res.solution = rout.result)

\* C16 witness: a request with returnOnlyCookies, after a challenge that was
\* detected and waited out, was answered with a Solution.
C16_Witness ==
    /\ rpc = "responded"
    /\ res.status = "ok"
    /\ req.returnOnlyCookies
    /\ run.challenge_found
    /\ res.solution.status = 200

\* C17: a result returned for a request with returnOnlyCookies has neither
\* response nor headers and waitInSeconds was not slept; a result returned
\* for a request without it has the page source as response.
C17_OnlyCookies ==
    (rout.kind = "return" /\ run.method # "")
        => IF req.returnOnlyCookies
           THEN /\ "response" \notin rout.result.has
                /\ "headers" \notin rout.result.has
                /\ ~run.slept
           ELSE /\ "response" \in rout.result.has
                /\ rout.result.response = page

\* C17 witness: a request with returnOnlyCookies and waitInSeconds = 2 got
\* its Solution.
C17_Witness ==
    /\ rpc = "ended"
    /\ rout.kind = "return"
    /\ req.returnOnlyCookies
    /\ req.waitInSeconds > 0
    /\ "cookies" \in rout.result.has

C24_CompletePass ==
    <<[kind |-> "title", title |-> TitleMoment],
      [kind |-> "title", title |-> TitleDdosGuard],
      [kind |-> "selectors", title |-> <<>>]>>

\* The wait the loop is at times out on the page.
C24_WaitFails ==
    \/ Len(run.pass) = 0 /\ page.title = TitleMoment
    \/ Len(run.pass) = 1 /\ page.title = TitleDdosGuard
    \/ Len(run.pass) = 2 /\ page.challenge_selector

\* C24: "Challenge solved!" is set only with a complete pass behind it, the
\* wait for every title and then the wait for the selectors; inside the loop
\* the waits that have succeeded are the first ones of that pass, in order;
\* the loop is left towards the result only from a page on which every one
\* of them succeeds; and a wait that times out is followed by click_verify
\* and by a pass that starts again with the first title (unless the outer
\* timeout or a driver call ends the resolution).
C24_FullPassBeforeSolved ==
    /\ [](run.message = "Challenge solved!"
            => (run.challenge_found /\ run.pass = C24_CompletePass))
    /\ [](rpc = "wait"
            => (/\ run.challenge_found
                /\ \E n \in 0..2 : run.pass = SubSeq(C24_CompletePass, 1, n)))
    /\ [][ (rpc = "wait" /\ rpc' = "result")
             => /\ (run').message = "Challenge solved!"
                /\ page' = page
                /\ page.title # TitleMoment
                /\ page.title # TitleDdosGuard
                /\ ~page.challenge_selector ]_vars
    /\ [][ (rpc = "wait" /\ C24_WaitFails)
             => \/ rpc' = "wait" /\ (run').verifies /\ (run').pass = <<>>
                \/ rpc' = "finally" /\ (run').message = "" ]_vars

\* C24 witness: a wait timed out, click_verify ran, and a later complete pass
\* ended the loop with "Challenge solved!".
C24_Witness ==
    /\ rpc = "ended"
    /\ rout.kind = "return"
    /\ rout.message = "Challenge solved!"
    /\ run.verifies
    /\ run.pass = C24_CompletePass

\* C25 (as claimed): a challenge found by its title, whatever the case of
\* the letters, is never reported as "Challenge solved!" while the title is
\* still the one it was found by.
C25_NotSolvedWhileTitleStays ==
    ~(run.message = "Challenge solved!" /\ run.title_kept)

\* C26 (as claimed): the result returned for a request with
\* returnOnlyCookies has no screenshot and no captured body, and the body
\* capture has not run.
C26_NoCaptureWithOnlyCookies ==
    (rout.kind = "return" /\ run.method # "" /\ req.returnOnlyCookies)
        => /\ "screenshot" \notin rout.result.has
           /\ "responseBody" \notin rout.result.has
           /\ ~run.log_read

\* C27: a turnstile token is a value read after click_verify that is not
\* empty and not the value read before the loop; while the loop runs no
\* token is there and the value read last is empty or that first value; the
\* solver, once it found the input, is left towards the rest of the
\* resolution only with a token; and the token is what the result carries.
C27_TokenIsFresh ==
    /\ run.turnstile_token # ""
          => /\ run.turnstile_token # run.baseline
             /\ run.turnstile_token = run.value_read
             /\ run.turnstile_verifies
             /\ run.turnstile_found
    /\ rpc = "turnstile"
          => /\ run.turnstile_token = ""
             /\ run.value_read \in {"", run.baseline}
    /\ (run.turnstile_found /\ InEvilLogic(rpc) /\ rpc # "turnstile")
          => run.turnstile_token # ""
    /\ (rout.kind = "return" /\ run.method # "")
          => rout.result.turnstile_token = run.turnstile_token

\* C27 witness: the input held "t0" before the loop, and the resolution
\* returned with the token "t1".
C27_Witness ==
    /\ rpc = "ended"
    /\ rout.kind = "return"
    /\ run.baseline = "t0"
    /\ rout.result.turnstile_token = "t1"

\* What C28 says of every navigation but the call that makes it: the solver
\* runs only with tabs_till_verify; without the turnstile input it gives no
\* token, runs no click_verify and does not fail the resolution; and the
\* page is loaded exactly once before the cookie step.
C28_Common ==
    /\ [](run.navigator = "_resolve_turnstile_captcha" => req.tabs_till_verify # NoTabs)
    /\ []((rpc = "turnstile" \/ run.turnstile_found \/ run.turnstile_verifies
                             \/ run.turnstile_token # "")
            => (run.navigator = "_resolve_turnstile_captcha" /\ run.turnstile_found))
    /\ []((run.navigator = "_resolve_turnstile_captcha" /\ ~run.turnstile_found)
            => (run.turnstile_token = "" /\ ~run.turnstile_verifies))
    /\ [][ (rpc = "navigate" /\ (run').navigator = "_resolve_turnstile_captcha"
                             /\ ~page'.turnstile)
             => (rpc' \in {"cookies", "inspect"} /\ rout' = rout) ]_vars
    /\ [](rpc = "navigate" => (run.navigations = 0 /\ run.navigator = ""))
    /\ [](rpc \in {"turnstile", "cookies"} => run.navigations = 1)
    /\ [](rpc = "inspect"
            => run.navigations = (IF req.cookies # NoCookies THEN 2 ELSE 1))

\* C28 (as claimed): the page is loaded by the turnstile solver when
\* tabs_till_verify is set, directly otherwise.
C28_NavigatedAsClaimed ==
    run.navigations >= 1
        => IF req.tabs_till_verify # NoTabs
           THEN run.navigator = "_resolve_turnstile_captcha"
           ELSE run.navigator \in {"driver.get", "_post_request"}

\* C28 (amended): as C28_Common, and the page is loaded by _post_request for
\* a POST, whether tabs_till_verify is set or not, and for a GET by the
\* turnstile solver when tabs_till_verify is set, by driver.get otherwise.
C28_TurnstileOnlyForGet ==
    /\ C28_Common
    /\ [](run.navigations >= 1
            => run.navigator = (IF run.method = "POST" THEN "_post_request"
                                ELSE IF req.tabs_till_verify # NoTabs
                                THEN "_resolve_turnstile_captcha"
                                ELSE "driver.get"))

\* C28 witness: a GET with tabs_till_verify on a page without the turnstile
\* input returned a result with no token, no click_verify of the solver
\* behind it.
C28_Witness ==
    /\ rpc = "ended"
    /\ rout.kind = "return"
    /\ req.tabs_till_verify # NoTabs
    /\ run.navigator = "_resolve_turnstile_captcha"
    /\ ~run.turnstile_found
    /\ ~run.turnstile_verifies
    /\ rout.result.turnstile_token = ""
    /\ run.navigations = 1

\* The request is one that validation rejects: no cmd, a cmd that is none of
\* the five, request.get without url or with postData, request.post without
\* postData.
C38_Rejected(r) ==
    \/ r.cmd = ""
    \/ r.cmd \notin {"sessions.create", "sessions.list", "sessions.destroy",
                     "request.get", "request.post"}
    \/ r.cmd = "request.get" /\ (r.url = <<>> \/ r.postData # "")
    \/ r.cmd = "request.post" /\ r.postData = ""

\* C38: a request that validation rejects is answered with an error response
\* and never reaches _resolve_challenge; from its arrival to its response no
\* driver is created or quit and no session is created, leased or removed.
C38_RejectedTouchesNothing ==
    /\ []((rpc # "idle" /\ C38_Rejected(req))
            => /\ rpc \in {"ended", "responded"}
               /\ rout.kind = "raise"
               /\ driver = 0
               /\ run = NoRun
               /\ rpc = "responded" => res.status = "error")
    /\ [][ ((rpc = "idle" /\ rpc' # "idle" /\ C38_Rejected(req'))
              \/ (rpc # "idle" /\ C38_Rejected(req)))
             => /\ nDrivers' = nDrivers
                /\ alive' = alive
                /\ closed' = closed
                /\ sessions' = sessions ]_vars

\* C38 witness: a request.post without postData that names a session was
\* answered with an error; the session does not exist and no driver was ever
\* created.
C38_Witness ==
    /\ rpc = "responded"
    /\ req.cmd = "request.post"
    /\ req.postData = ""
    /\ req.session = "s1"
    /\ res.status = "error"
    /\ sessions["s1"] = 0
    /\ nDrivers = 0

----------------------------------------------------------------------------
(* Properties of the rate limiter (checked under RateSpec).                 *)

\* C23 (as claimed): when each call is awaited before the next is made, the
\* first call does not sleep, and every request of the base class after the
\* first starts at least 1/req_rate_limit after the one before it ended.
C23_SpacedAfterPrevious ==
    rl.mode = "sequential"
        => /\ (Len(rl.slept) >= 1 => ~rl.slept[1])
           /\ \A i \in 2..Len(rl.reqs) :
                  rl.reqs[i].start - rl.reqs[i - 1].end >= MinInterval

\* C40 (as claimed): when calls of several tasks are in flight together, any
\* two requests of the base class start at least 1/req_rate_limit apart.
\* (Stated for the runs in which no request has raised.)
C40_ConcurrentRequestsSpaced ==
    (/\ rl.mode = "concurrent"
     /\ \A i \in 1..Len(rl.reqs) : rl.reqs[i].ok \/ rl.reqs[i].end = NoTime)
        => \A i, j \in 1..Len(rl.reqs) :
              i < j => rl.reqs[j].start - rl.reqs[i].start >= MinInterval

----------------------------------------------------------------------------
(* Properties of the candidate selection (checked under ScoreSpec).         *)

CandidateSet == {sc.candidates[i] : i \in 1..Len(sc.candidates)}

\* C18: the selected candidate is one of the candidates, none has a larger
\* score, and none with the same score has a larger log index.  (The
\* selection is a function of the log and the targets, so it is the same
\* every time.)
C18_LatestBestSelected ==
    (sc.pc = "picked" /\ sc.candidates # <<>>)
        => /\ sc.picked \in CandidateSet
           /\ sc.picked.request_id = sc.perf_logs[sc.picked.index + 1].requestId
           /\ \A c \in CandidateSet :
                /\ c.score <= sc.picked.score
                /\ c.score = sc.picked.score => c.index <= sc.picked.index

\* C18 witness: two candidates had the largest score and the later one was
\* selected.
C18_Witness ==
    /\ sc.pc = "picked"
    /\ \E c \in CandidateSet :
         c.score = sc.picked.score /\ c.index < sc.picked.index

\* urlparse(url).path: what follows the host, up to "?" or "#".
C19_Path(url) ==
    LET rest == SubSeq(url, Len(Origin(url)) + 1, Len(url))
        ends == {i \in 1..Len(rest) : rest[i] \in {"?", "#"}}
    IN  IF ends = {} THEN rest ELSE SubSeq(rest, 1, Min(ends) - 1)

\* The score as the claim states it.
C19_ClaimedScore(entry, targets) ==
    LET n == _normalize_url(entry.url)
    IN  (IF n \in targets THEN 10 ELSE 0)
      + (IF \E t \in targets : StartsWith(n, t) \/ StartsWith(t, n) THEN 4 ELSE 0)
      + (IF Contains(Lower(entry.mimeType), Pdf) THEN 6 ELSE 0)
      + (IF Contains(C19_Path(n), DotPdf) THEN 4 ELSE 0)
      + (IF entry.type = "Document" THEN 2 ELSE 0)
      + (IF entry.status >= 200 /\ entry.status <= 299 THEN 1 ELSE 0)

\* C19 (as claimed): the score of every response event of the log is the sum
\* the claim gives, with 4 for ".pdf" in the path of the URL, and the
\* candidates are the events for which that sum is greater than 0.
C19_ScoreIsClaimedSum ==
    sc.pc = "scored"
        => \A i \in 1..Len(sc.perf_logs) :
             IsResponseEvent(sc.perf_logs[i])
                => LET claimed == C19_ClaimedScore(sc.perf_logs[i],
                                                   Targets(sc.url, sc.current_url))
                       kept == {c \in CandidateSet : c.index = i - 1}
                   IN  /\ (claimed > 0) <=> (kept # {})
                       /\ \A c \in kept : c.score = claimed

\* The targets of the selection at hand.
C39_Targets == Targets(sc.url, sc.current_url)

\* The URL, normalized, is one of the targets.
C39_Exact(url) == _normalize_url(url) \in C39_Targets

\* The URL, normalized, is no target, starts with no target, and no target
\* starts with it.
C39_Unrelated(url) ==
    \A t \in C39_Targets :
        /\ _normalize_url(url) # t
        /\ ~StartsWith(_normalize_url(url), t)
        /\ ~StartsWith(t, _normalize_url(url))

\* C39: every candidate whose URL is unrelated to the targets has a smaller
\* score than every candidate whose normalized URL is a target; and when the
\* log holds a response event with a request id whose normalized URL is a
\* target, the candidate selected is not an unrelated one.
C39_UnrelatedNeverBeatsExact ==
    /\ sc.pc \in {"scored", "picked"}
          => \A a, b \in CandidateSet :
                (C39_Unrelated(a.url) /\ C39_Exact(b.url)) => a.score < b.score
    /\ (/\ sc.pc = "picked"
        /\ \E i \in 1..Len(sc.perf_logs) :
              /\ sc.perf_logs[i].kind = "response"
              /\ sc.perf_logs[i].requestId # ""
              /\ sc.perf_logs[i].url # <<>>
              /\ C39_Exact(sc.perf_logs[i].url))
          => /\ sc.picked # NoCandidate
             /\ ~C39_Unrelated(sc.picked.url)

\* C39 witness: an unrelated response with every other point (a PDF MIME
\* type, ".pdf" in its URL, a Document, status 200) came later in the log
\* than a response for the target that has no other point, and the latter
\* was selected.
C39_Witness ==
    /\ sc.pc = "picked"
    /\ C39_Exact(sc.picked.url)
    /\ sc.picked.status = 404
    /\ \E a \in CandidateSet :
          /\ C39_Unrelated(a.url)
          /\ a.index > sc.picked.index
          /\ a.score + 1 = sc.picked.score
====
